---------------------------- MODULE Spec2Model ----------------------------
(***************************************************************************)
(* Connection lifecycle, print executor and retry policy of the print      *)
(* server: src/src/printer.js (second definition of the module, lines      *)
(* 124-323), src/src/print-handler.js and the constants module.            *)
(*                                                                         *)
(* JavaScript runs one callback at a time.  An action of this module is    *)
(* one such run: the synchronous code from the point where a promise or    *)
(* timer resumes a function up to its next await.  Node resumes an await   *)
(* on a settled promise before it runs the callback of another request;    *)
(* the module does not rely on that order and lets any enabled callback    *)
(* run at every await, so it has every behaviour of the server and those   *)
(* of callers that use the exported functions back to back.                *)
(***************************************************************************)
EXTENDS Integers, Sequences, FiniteSets, TLC

(***************************************************************************)
(* Program constants (constants module).                                   *)
(***************************************************************************)
RETRY_BASE_DELAY == 1000

MAX_RETRY_ATTEMPTS == 3

\* server.js line 222: the largest number of items of an order.
MAX_ORDER_ITEMS == 100

\* config.js line 26: the paper width when PAPER_WIDTH is not set.
DefaultPaperWidth == 48

\* config.js line 66: the paper widths validateConfig accepts.
PaperWidths == {32, 48}

(***************************************************************************)
(* Bounds of the model.                                                    *)
(***************************************************************************)
NumReq == 3

Budget == 4

\* Lengths of the texts of an order, amounts of money in cents, and the
\* number of items of an order, for the receipt formatter.
ShortText == 8

LongText == 60

SmallAmount == 1050

LargeAmount == 99999999

MaxItems == 2

\* Discoveries made in a run of printer.js on its own.
MaxDiscoveries == 4

Reqs == 1..NumReq

Attempts == 0..MAX_RETRY_ATTEMPTS

NULL == 0

(***************************************************************************)
(* Error messages, as sequences of characters, so that the substring       *)
(* classification of the retry policy is computed and not assumed.         *)
(***************************************************************************)
PatTimeout ==
    << "t", "i", "m", "e", "o", "u", "t" >>

PatBusy ==
    << "b", "u", "s", "y" >>

PatEagain ==
    << "e", "a", "g", "a", "i", "n" >>

PatEbusy ==
    << "e", "b", "u", "s", "y" >>

PatFailedToOpen ==
    << "f", "a", "i", "l", "e", "d", " ", "t", "o", " ", "o", "p", "e",
       "n" >>

PatConnection ==
    << "c", "o", "n", "n", "e", "c", "t", "i", "o", "n" >>

PatIoError ==
    << "i", "/", "o", " ", "e", "r", "r", "o", "r" >>

MsgNoDevice ==
    << "N", "o", " ", "U", "S", "B", " ", "p", "r", "i", "n", "t", "e",
       "r", " ", "f", "o", "u", "n", "d" >>

MsgNetwork ==
    << "N", "e", "t", "w", "o", "r", "k", " ", "p", "r", "i", "n", "t",
       "e", "r", " ", "n", "o", "t", " ", "y", "e", "t", " ", "s", "u",
       "p", "p", "o", "r", "t", "e", "d", " ", "w", "i", "t", "h", " ",
       "m", "o", "r", "d", "e", "n", "-", "n", "o", "d", "e", "-", "e",
       "s", "c", "p", "o", "s", ".", " ", "P", "l", "e", "a", "s", "e",
       " ", "u", "s", "e", " ", "U", "S", "B", " ", "p", "r", "i", "n",
       "t", "e", "r", " ", "o", "r", " ", "c", "o", "n", "t", "r", "i",
       "b", "u", "t", "e", " ", "n", "e", "t", "w", "o", "r", "k", " ",
       "a", "d", "a", "p", "t", "e", "r", " ", "s", "u", "p", "p", "o",
       "r", "t", "." >>

MsgUnsupportedPrefix ==
    << "U", "n", "s", "u", "p", "p", "o", "r", "t", "e", "d", " ", "p",
       "r", "i", "n", "t", "e", "r", " ", "t", "y", "p", "e", ":", " " >>

MsgTimeout ==
    << "P", "r", "i", "n", "t", " ", "o", "p", "e", "r", "a", "t", "i",
       "o", "n", " ", "t", "i", "m", "e", "o", "u", "t" >>

MsgOpenFailedPrefix ==
    << "F", "a", "i", "l", "e", "d", " ", "t", "o", " ", "o", "p", "e",
       "n", " ", "p", "r", "i", "n", "t", "e", "r", ":", " " >>

MsgWrapPrefix ==
    << "P", "r", "i", "n", "t", " ", "o", "p", "e", "r", "a", "t", "i",
       "o", "n", " ", "f", "a", "i", "l", "e", "d", " ", "a", "f", "t",
       "e", "r", " " >>

MsgWrapMiddle ==
    << " ", "r", "e", "t", "r", "i", "e", "s", ":", " " >>

MsgThreeRetries ==
    << "3", " ", "r", "e", "t", "r", "i", "e", "s" >>

\* Two messages of errors thrown by the driver while a receipt is sent: one
\* that contains a transient pattern and one that contains none.
MsgDriverBusy ==
    << "L", "I", "B", "U", "S", "B", "_", "E", "R", "R", "O", "R", "_",
       "B", "U", "S", "Y" >>

MsgDriverGone ==
    << "L", "I", "B", "U", "S", "B", "_", "E", "R", "R", "O", "R", "_",
       "N", "O", "_", "D", "E", "V", "I", "C", "E" >>

MsgDriverAccess ==
    << "L", "I", "B", "U", "S", "B", "_", "E", "R", "R", "O", "R", "_",
       "A", "C", "C", "E", "S", "S" >>

TypeSerial ==
    << "s", "e", "r", "i", "a", "l" >>

UpperCase ==
    << "A", "B", "C", "D", "E", "F", "G", "H", "I", "J", "K", "L", "M",
       "N", "O", "P", "Q", "R", "S", "T", "U", "V", "W", "X", "Y", "Z" >>

LowerCase ==
    << "a", "b", "c", "d", "e", "f", "g", "h", "i", "j", "k", "l", "m",
       "n", "o", "p", "q", "r", "s", "t", "u", "v", "w", "x", "y", "z" >>

DigitChars ==
    << "0", "1", "2", "3", "4", "5", "6", "7", "8", "9" >>

(***************************************************************************)
(* String helpers of JavaScript used by the retry policy.                  *)
(***************************************************************************)
toLowerCaseChar(c) ==
    IF \E i \in 1..Len(UpperCase) : UpperCase[i] = c
    THEN LowerCase[CHOOSE i \in 1..Len(UpperCase) : UpperCase[i] = c]
    ELSE c

toLowerCase(s) == [i \in 1..Len(s) |-> toLowerCaseChar(s[i])]

includes(s, p) ==
    \E i \in 0..(Len(s) - Len(p)) : \A j \in 1..Len(p) : s[i + j] = p[j]

RECURSIVE DecimalString(_)
DecimalString(n) ==
    IF n < 10 THEN << DigitChars[n + 1] >>
    ELSE DecimalString(n \div 10) \o << DigitChars[(n % 10) + 1] >>

(***************************************************************************)
(* Errors.  An error is the kind of its origin, and for the error the      *)
(* retry policy builds, the retry count and the cause it wraps.            *)
(***************************************************************************)
ErrorKinds ==
    {"NoDevice", "Network", "Unsupported", "Timeout", "OpenFailed",
     "DriverBusy", "DriverGone"}

NoError == [kind |-> "none", retries |-> 0, cause |-> "none"]

Err(k) == [kind |-> k, retries |-> 0, cause |-> "none"]

BaseMessage(k) ==
    CASE k = "NoDevice"    -> MsgNoDevice
      [] k = "Network"     -> MsgNetwork
      [] k = "Unsupported" -> MsgUnsupportedPrefix \o TypeSerial
      [] k = "Timeout"     -> MsgTimeout
      [] k = "OpenFailed"  -> MsgOpenFailedPrefix \o MsgDriverAccess
      [] k = "DriverBusy"  -> MsgDriverBusy
      [] k = "DriverGone"  -> MsgDriverGone
      [] OTHER             -> << >>

WrappedError(maxRetries, lastError) ==
    [kind |-> "Wrapped", retries |-> maxRetries, cause |-> lastError.kind]

Message(e) ==
    IF e.kind = "Wrapped"
    THEN MsgWrapPrefix \o DecimalString(e.retries) \o MsgWrapMiddle
             \o BaseMessage(e.cause)
    ELSE BaseMessage(e.kind)

transientPatterns_withFound ==
    << PatTimeout, PatBusy, PatEagain, PatEbusy, PatFailedToOpen,
       PatConnection, PatIoError, << "f", "o", "u", "n", "d" >> >>

transientPatterns_withSupport ==
    << PatTimeout, PatBusy, PatEagain, PatEbusy, PatFailedToOpen,
       PatConnection, PatIoError,
       << "s", "u", "p", "p", "o", "r", "t" >> >>

transientPatterns_noTimeout ==
    << PatBusy, PatEagain, PatEbusy, PatFailedToOpen, PatConnection,
       PatIoError >>

transientPatterns ==
    << PatTimeout, PatBusy, PatEagain, PatEbusy, PatFailedToOpen,
       PatConnection, PatIoError >>

isTransientError(error) ==
    \E i \in 1..Len(transientPatterns) :
        includes(toLowerCase(Message(error)), transientPatterns[i])

\* isTransientError of the error of each kind, computed once.
TransientKinds == {k \in ErrorKinds : isTransientError(Err(k))}

\* print-handler.js line 74: the test that rethrows the error unchanged.
Permanent_never(error) == FALSE

Permanent(error) ==
    IF error.kind \in ErrorKinds
    THEN error.kind \notin TransientKinds
    ELSE ~isTransientError(error)

\* print-handler.js line 51.
BackoffDelay_linear(attempt) == attempt * RETRY_BASE_DELAY

BackoffDelay(attempt) == (2 ^ (attempt - 1)) * RETRY_BASE_DELAY

\* print-handler.js line 80.
RetriesExhausted_early(attempt, maxRetries) == attempt + 1 = maxRetries

RetriesExhausted(attempt, maxRetries) == attempt = maxRetries

(***************************************************************************)
(* Texts of receipt-formatter.js and of the default configuration, and the *)
(* date and the time of one created_at value in the en-MY locale.          *)
(***************************************************************************)
TxtStoreName ==
    << "X", "i", "P", "O", "S", " ", "S", "t", "o", "r", "e" >>

TxtReceiptNo ==
    << "R", "e", "c", "e", "i", "p", "t", " ", "#", ":" >>

TxtNA ==
    << "N", "/", "A" >>

TxtDate ==
    << "D", "a", "t", "e", ":" >>

TxtTime ==
    << "T", "i", "m", "e", ":" >>

TxtCashier ==
    << "C", "a", "s", "h", "i", "e", "r", ":" >>

TxtCustomer ==
    << "C", "u", "s", "t", "o", "m", "e", "r", ":" >>

TxtItems ==
    << "I", "T", "E", "M", "S", ":" >>

TxtItem ==
    << "I", "t", "e", "m", " " >>

TxtTimes ==
    << " ", "x", " " >>

TxtSubtotal ==
    << "S", "u", "b", "t", "o", "t", "a", "l", ":" >>

TxtTax ==
    << "T", "a", "x", ":" >>

TxtDiscount ==
    << "D", "i", "s", "c", "o", "u", "n", "t", ":" >>

TxtTotal ==
    << "T", "O", "T", "A", "L", ":" >>

TxtPayment ==
    << "P", "a", "y", "m", "e", "n", "t", ":" >>

TxtCash ==
    << "C", "a", "s", "h" >>

TxtMemberCredit ==
    << "M", "e", "m", "b", "e", "r", " ", "C", "r", "e", "d", "i", "t" >>

TxtRewardPoints ==
    << "R", "e", "w", "a", "r", "d", " ", "P", "o", "i", "n", "t", "s" >>

TxtQRPay ==
    << "Q", "R", " ", "P", "a", "y" >>

TxtPaid ==
    << "P", "a", "i", "d", ":" >>

TxtChange ==
    << "C", "h", "a", "n", "g", "e", ":" >>

TxtMember ==
    << "M", "e", "m", "b", "e", "r", ":", " " >>

TxtCode ==
    << "C", "o", "d", "e", ":", " " >>

TxtFooterLine1 ==
    << "T", "h", "a", "n", "k", " ", "y", "o", "u", " ", "f", "o", "r", " ",
       "y", "o", "u", "r", " ", "p", "u", "r", "c", "h", "a", "s", "e", "!" >>

TxtFooterLine2 ==
    << "P", "l", "e", "a", "s", "e", " ", "c", "o", "m", "e", " ", "a", "g",
       "a", "i", "n" >>

TxtCurrency ==
    << "R", "M" >>

TxtSomeDate ==
    << "0", "3", "/", "0", "2", "/", "2", "0", "2", "4" >>

TxtSomeTime ==
    << "1", "8", ":", "0", "0", ":", "0", "0" >>

(***************************************************************************)
(* receipt-formatter.js.  A text is a sequence of characters; an amount of *)
(* money is a number of cents, a quantity a whole number.                  *)
(***************************************************************************)
Max(a, b) == IF a > b THEN a ELSE b

Min(a, b) == IF a < b THEN a ELSE b

\* String.prototype.repeat.
repeat(c, n) == [i \in 1..n |-> c]

\* String.prototype.substring: an index below 0 counts as 0, one beyond the
\* end as the length, and the two are swapped if the first is the larger.
substring(text, start, end) ==
    LET from == Max(0, Min(start, Len(text)))
        to == Max(0, Min(end, Len(text)))
    IN  SubSeq(text, Min(from, to) + 1, Max(from, to))

toUpperCaseChar(c) ==
    IF \E i \in 1..Len(LowerCase) : LowerCase[i] = c
    THEN UpperCase[CHOOSE i \in 1..Len(LowerCase) : LowerCase[i] = c]
    ELSE c

toUpperCase(s) == [i \in 1..Len(s) |-> toUpperCaseChar(s[i])]

\* Number.prototype.toFixed(2) of an amount given in cents.
toFixed2(cents) ==
    DecimalString(cents \div 100)
        \o << ".", DigitChars[((cents % 100) \div 10) + 1],
              DigitChars[(cents % 10) + 1] >>

\* Lines 6-11.
fitText(text, width) ==
    IF Len(text) > width THEN substring(text, 0, width) ELSE text

\* Lines 16-19.
centerText(text, width) ==
    repeat(" ", Max(0, (width - Len(text)) \div 2)) \o text

\* Lines 24-31.
createLine(left, right, width) ==
    IF width - Len(left) - Len(right) < 0
    THEN fitText(left, width - Len(right) - 1) \o << " " >> \o right
    ELSE left \o repeat(" ", width - Len(left) - Len(right)) \o right

\* Lines 36-39, the currency symbol being the default one.
formatCurrency(amount) == TxtCurrency \o << " " >> \o toFixed2(amount)

\* Lines 138-144.
paymentMethodName(paymentMethod) ==
    CASE paymentMethod = << "c", "a", "s", "h" >> -> TxtCash
      [] paymentMethod = << "c", "r", "e", "d", "i", "t" >> -> TxtMemberCredit
      [] paymentMethod = << "r", "e", "w", "a", "r", "d" >> -> TxtRewardPoints
      [] paymentMethod = << "q", "r", "p", "a", "y" >> -> TxtQRPay
      [] OTHER -> paymentMethod

\* Lines 98-115: the lines of the items from the index-th on (index counts
\* from 0, as in the source).
RECURSIVE itemLines(_, _, _)
itemLines(items, index, width) ==
    IF index >= Len(items)
    THEN << >>
    ELSE LET item == items[index + 1]
             itemName ==
                 fitText(IF item.product_name # << >>
                         THEN item.product_name
                         ELSE TxtItem \o DecimalString(index + 1), width)
             qty == IF item.quantity = 0 THEN 1 ELSE item.quantity
             price == item.sell_price
             qtyText ==
                 DecimalString(qty) \o TxtTimes \o formatCurrency(price)
             totalText == formatCurrency(qty * price)
         IN  << itemName, createLine(qtyText, totalText, width) >>
                 \o (IF index < Len(items) - 1 THEN << << >> >> ELSE << >>)
                 \o itemLines(items, index + 1, width)

\* Lines 55-183.  The store name is the default of config.js and the other
\* store fields are empty, as they are by default; date and time are the
\* two texts formatDateTime made of created_at.
formatReceipt(order, width) ==
    LET separator == repeat("=", width)
        dashed == repeat("-", width)
        subtotal ==
            IF order.subtotal # 0 THEN order.subtotal ELSE order.total_amount
        total ==
            IF order.total_amount # 0 THEN order.total_amount ELSE subtotal
        paymentMethod ==
            IF order.payment_method # << >> THEN order.payment_method
            ELSE TxtNA
        paid == order.payment_amount
    IN  << centerText(toUpperCase(TxtStoreName), width),
           separator,
           createLine(TxtReceiptNo,
                      IF order.receipt_number # << >>
                      THEN order.receipt_number
                      ELSE IF order.id # << >> THEN order.id ELSE TxtNA,
                      width),
           createLine(TxtDate, TxtSomeDate, width),
           createLine(TxtTime, TxtSomeTime, width) >>
        \o (IF order.cashier_name # << >>
            THEN << createLine(TxtCashier, order.cashier_name, width) >>
            ELSE << >>)
        \o (IF order.customer_name # << >>
            THEN << createLine(TxtCustomer, order.customer_name, width) >>
            ELSE << >>)
        \o << separator, TxtItems, dashed >>
        \o itemLines(order.items, 0, width)
        \o << dashed,
              createLine(TxtSubtotal, formatCurrency(subtotal), width) >>
        \o (IF order.tax > 0
            THEN << createLine(TxtTax, formatCurrency(order.tax), width) >>
            ELSE << >>)
        \o (IF order.discount > 0
            THEN << createLine(TxtDiscount, formatCurrency(order.discount),
                               width) >>
            ELSE << >>)
        \o << separator,
              createLine(TxtTotal, formatCurrency(total), width),
              separator,
              createLine(TxtPayment, paymentMethodName(paymentMethod),
                         width) >>
        \o (IF paid # 0
            THEN << createLine(TxtPaid, formatCurrency(paid), width) >>
                     \o (IF paymentMethod = << "c", "a", "s", "h" >>
                            /\ paid > total
                         THEN << createLine(TxtChange,
                                            formatCurrency(paid - total),
                                            width) >>
                         ELSE << >>)
            ELSE << >>)
        \o (IF order.payment_data.member_name # << >>
            THEN << dashed, TxtMember \o order.payment_data.member_name >>
                     \o (IF order.payment_data.member_code # << >>
                         THEN << TxtCode \o order.payment_data.member_code >>
                         ELSE << >>)
            ELSE << >>)
        \o << separator,
              << >>,
              centerText(TxtFooterLine1, width),
              centerText(TxtFooterLine2, width),
              << >> >>
        \o (IF order.footer_message # << >>
            THEN << centerText(order.footer_message, width), << >> >>
            ELSE << >>)

(***************************************************************************)
(* State.                                                                  *)
(***************************************************************************)
VARIABLES
    printerAdapter,         \* printer.js: the stored handle, NULL or its id
    isInitialized,          \* printer.js
    initializationPromise,  \* printer.js: NoPromise or a settled promise
    cfgType,                \* config.printer.type
    constructed,            \* number of USBAdapter objects constructed
    discoveries,            \* number of USBAdapter.findPrinter() calls
    closeCalled,            \* handles on which close() has been invoked
    window,                 \* what initPrinter() did since the last reset
    pc,                     \* where each printReceipt request stands
    attempt,                \* retryWithBackoff: the loop variable
    acquired,               \* printReceiptCore: the awaited initPrinter()
    coreError,              \* what printReceiptCore rejected with
    outcome,                \* what printReceipt settled with
    trace,                  \* retryWithBackoff: its resets, waits and calls
    finishedBefore,         \* requests already reset when this one began
    faults,                 \* failures the environment has injected
    operation,              \* printOperation of each attempt
    timer,                  \* deadline timer of each attempt
    emitted,                \* receipts sent to the device, cut included
    closed,                 \* handles whose close callback has fired
    shutdown,               \* gracefulShutdown, the server and the process
    orderData,              \* formatReceipt: its argument
    paperWidth,             \* config.receipt.paperWidth
    lines,                  \* formatReceipt: the lines it returned
    printerCalls,           \* the calls forEach made on the Printer
    usb,                    \* config.printer.usb: vendorId and productId
    apiKey,                 \* config.auth.apiKey
    adapters                \* arguments of each new USBAdapter(...) call

vars ==
    << printerAdapter, isInitialized, initializationPromise, cfgType,
       constructed, discoveries, closeCalled, window, pc, attempt,
       acquired, coreError, outcome, trace, finishedBefore, faults,
       operation, timer, emitted, closed, shutdown, orderData, paperWidth,
       lines, printerCalls, usb, apiKey, adapters >>

formatVars == << orderData, paperWidth, lines, printerCalls >>

configVars == << usb, apiKey >>

managerVars ==
    << printerAdapter, isInitialized, initializationPromise, constructed,
       discoveries, closeCalled, window, adapters >>

NoPromise == [settled |-> FALSE, handle |-> NULL, error |-> NoError]

Resolved(h) == [settled |-> TRUE, handle |-> h, error |-> NoError]

Rejected(e) == [settled |-> TRUE, handle |-> NULL, error |-> e]

EmptyWindow == [discoveries |-> 0, constructed |-> 0, results |-> {}]

NoOperation == [state |-> "none", handle |-> NULL, sent |-> << >>]

NoOutcome == [success |-> FALSE, error |-> NoError]

NotShuttingDown ==
    [pc |-> "idle", handle |-> NULL, server |-> "listening", exit |-> "none"]

(***************************************************************************)
(* The module state of printer.js as one value, so that the calls a        *)
(* callback makes one after the other compose.                             *)
(***************************************************************************)
Manager ==
    [printerAdapter |-> printerAdapter,
     isInitialized |-> isInitialized,
     initializationPromise |-> initializationPromise,
     constructed |-> constructed,
     discoveries |-> discoveries,
     closeCalled |-> closeCalled,
     window |-> window,
     adapters |-> adapters,
     returned |-> NoPromise]

SetManager(m) ==
    /\ printerAdapter' = m.printerAdapter
    /\ isInitialized' = m.isInitialized
    /\ initializationPromise' = m.initializationPromise
    /\ constructed' = m.constructed
    /\ discoveries' = m.discoveries
    /\ closeCalled' = m.closeCalled
    /\ window' = m.window
    /\ adapters' = m.adapters

(***************************************************************************)
(* printer.js: initPrinter().  The body of the inner async function has    *)
(* no await, so it runs to its end, its finally block included, before     *)
(* the assignment of line 146 stores the promise it returns.               *)
(***************************************************************************)
Discover(m) ==
    [m EXCEPT !.discoveries = @ + 1, !.window.discoveries = @ + 1]

\* Lines 157-165: the arguments new USBAdapter is called with.  A string
\* of the configuration is a tuple of characters and << >> stands for
\* null; config.js line 17-18 turns an empty or missing variable into null.
HexDigits ==
    << "0", "1", "2", "3", "4", "5", "6", "7", "8", "9", "a", "b", "c", "d",
       "e", "f" >>

hexValue(c) ==
    IF \E i \in 1..16 : HexDigits[i] = toLowerCaseChar(c)
    THEN (CHOOSE i \in 1..16 : HexDigits[i] = toLowerCaseChar(c)) - 1
    ELSE -1

RECURSIVE hexNumber(_, _)
hexNumber(s, k) ==
    IF k = 0 THEN 0 ELSE hexNumber(s, k - 1) * 16 + hexValue(s[k])

NaN == [type |-> "NaN"]

\* parseInt(s, 16): the number its longest prefix of hexadecimal digits
\* denotes, NaN if s begins with none.
parseInt16(s) ==
    LET prefix == CHOOSE k \in 0..Len(s) :
                      /\ \A i \in 1..k : hexValue(s[i]) >= 0
                      /\ k < Len(s) => hexValue(s[k + 1]) < 0
    IN  IF prefix = 0
        THEN NaN
        ELSE [type |-> "number", value |-> hexNumber(s, prefix)]

USBAdapterArgs_either ==
    IF usb.vendorId # << >> \/ usb.productId # << >>
    THEN << parseInt16(usb.vendorId), parseInt16(usb.productId) >>
    ELSE << >>

USBAdapterArgs ==
    IF usb.vendorId # << >> /\ usb.productId # << >>
    THEN << parseInt16(usb.vendorId), parseInt16(usb.productId) >>
    ELSE << >>

Construct(m) ==
    [m EXCEPT !.printerAdapter = m.constructed + 1,
              !.constructed = @ + 1,
              !.window.constructed = @ + 1,
              !.adapters = Append(@, USBAdapterArgs)]

\* Lines 179-186: the catch and finally blocks, the promise rejected.
InitializationFails(m, e) ==
    [m EXCEPT !.isInitialized = FALSE,
              !.printerAdapter = NULL,
              !.initializationPromise = NoPromise,
              !.returned = Rejected(e)]

\* Lines 147-187: the inner async function, called.
InitializationBody(m, found) ==
    IF cfgType = "usb"
    THEN IF ~found
         THEN InitializationFails(Discover(m), Err("NoDevice"))
         ELSE [Construct(Discover(m)) EXCEPT
                   !.isInitialized = TRUE,
                   !.initializationPromise = NoPromise,
                   !.returned = Resolved(m.constructed + 1)]
    ELSE IF cfgType = "network"
    THEN InitializationFails(m, Err("Network"))
    ELSE InitializationFails(m, Err("Unsupported"))

\* Line 146: the assignment, made after the body has run.
StartInitialization(m, found) ==
    [InitializationBody(m, found) EXCEPT
         !.initializationPromise = InitializationBody(m, found).returned]

Noted(m) == [m EXCEPT !.window.results = @ \cup {m.returned}]

initPrinter_noPendingCheck(m, found) ==
    Noted(IF m.isInitialized /\ m.printerAdapter # NULL
          THEN [m EXCEPT !.returned = Resolved(m.printerAdapter)]
          ELSE StartInitialization(m, found))

initPrinter_probesWhenReady(m, found) ==
    Noted(IF m.isInitialized /\ m.printerAdapter # NULL
          THEN [Discover(m) EXCEPT !.returned = Resolved(m.printerAdapter)]
          ELSE IF m.initializationPromise # NoPromise
          THEN [m EXCEPT !.returned = m.initializationPromise]
          ELSE StartInitialization(m, found))

initPrinter_alwaysInitializes(m, found) ==
    Noted(StartInitialization(m, found))

initPrinter(m, found) ==
    Noted(IF m.isInitialized /\ m.printerAdapter # NULL
          THEN [m EXCEPT !.returned = Resolved(m.printerAdapter)]
          ELSE IF m.initializationPromise # NoPromise
          THEN [m EXCEPT !.returned = m.initializationPromise]
          ELSE StartInitialization(m, found))

(***************************************************************************)
(* printer.js: getPrinter() and resetPrinter().                            *)
(***************************************************************************)
getPrinter == printerAdapter

\* Lines 195-197 as a call on the module state: what the call leaves as the
\* state, and the value it returns.
getPrinterCall_initializes(m) ==
    [manager |-> initPrinter(m, TRUE),
     value |-> initPrinter(m, TRUE).printerAdapter]

getPrinterCall(m) == [manager |-> m, value |-> m.printerAdapter]

\* server.js lines 153-165: the handler of GET /health and its response.
health(m) ==
    [manager |-> getPrinterCall(m).manager,
     status |-> IF getPrinterCall(m).value # NULL THEN "ok" ELSE "degraded",
     printer |-> [connected |-> getPrinterCall(m).value # NULL,
                  type |-> cfgType]]

\* Lines 204-214: the flag is cleared and close() is tried on the stored
\* handle; closeThrows says whether the driver's close() throws.  The catch
\* block of line 210 keeps the error from leaving the try statement.
CloseAttempt_rethrows(m, closeThrows) ==
    [manager |-> [m EXCEPT !.isInitialized = FALSE,
                           !.closeCalled = IF m.printerAdapter # NULL
                                           THEN @ \cup {m.printerAdapter}
                                           ELSE @],
     thrown |-> closeThrows /\ m.printerAdapter # NULL]

CloseAttempt(m, closeThrows) ==
    [manager |-> [m EXCEPT !.isInitialized = FALSE,
                           !.closeCalled = IF m.printerAdapter # NULL
                                           THEN @ \cup {m.printerAdapter}
                                           ELSE @],
     thrown |-> FALSE]

\* Lines 202-217 with the behaviour of close() as an input: lines 215-216
\* run unless an error has left the try statement.
resetPrinterCall(m, closeThrows) ==
    IF CloseAttempt(m, closeThrows).thrown
    THEN CloseAttempt(m, closeThrows)
    ELSE [manager |-> [CloseAttempt(m, closeThrows).manager EXCEPT
                           !.printerAdapter = NULL,
                           !.initializationPromise = NoPromise,
                           !.window = EmptyWindow],
          thrown |-> FALSE]

resetPrinter_keepsPromise(m) ==
    [m EXCEPT !.isInitialized = FALSE,
              !.closeCalled = IF m.printerAdapter # NULL
                              THEN @ \cup {m.printerAdapter} ELSE @,
              !.printerAdapter = NULL,
              !.window = EmptyWindow]

resetPrinter_keepsAdapter(m) ==
    [m EXCEPT !.isInitialized = FALSE,
              !.closeCalled = IF m.printerAdapter # NULL
                              THEN @ \cup {m.printerAdapter} ELSE @,
              !.initializationPromise = NoPromise,
              !.window = EmptyWindow]

resetPrinter(m) ==
    [m EXCEPT !.isInitialized = FALSE,
              !.closeCalled = IF m.printerAdapter # NULL
                              THEN @ \cup {m.printerAdapter} ELSE @,
              !.printerAdapter = NULL,
              !.initializationPromise = NoPromise,
              !.window = EmptyWindow]

(***************************************************************************)
(* printer.js: closePrinter().  Line 232 calls close() on the stored       *)
(* handle and the function awaits the callback or the 2000 ms timer; the   *)
(* finally block of lines 245-248 clears the handle and the flag, and      *)
(* leaves initializationPromise as it is.  A close() that throws is caught *)
(* at line 237 and resolves the awaited promise as the callback does.      *)
(***************************************************************************)
closePrinter_close(m) ==
    [m EXCEPT !.closeCalled = @ \cup {m.printerAdapter}]

closePrinter_finally_keepsAdapter(m) ==
    [m EXCEPT !.isInitialized = FALSE]

closePrinter_finally_keepsFlag(m) ==
    [m EXCEPT !.printerAdapter = NULL]

closePrinter_finally(m) ==
    [m EXCEPT !.printerAdapter = NULL, !.isInitialized = FALSE]

(***************************************************************************)
(* The commands an operation sends to the device through the Printer       *)
(* object, in the order of the calls.  text(i) sends the i-th line; the    *)
(* align and style calls made before a line are left out.                  *)
(***************************************************************************)
Command(c, i) == [cmd |-> c, line |-> i]

\* print-handler.js lines 127-146: forEach over the lines, then feed, cut
\* and close.
printCommands_cutsFirst(receiptLines) ==
    << Command("cut", 0) >>
        \o [i \in 1..Len(receiptLines) |-> Command("text", i)]
        \o << Command("feed", 0), Command("close", 0) >>

printCommands(receiptLines) ==
    [i \in 1..Len(receiptLines) |-> Command("text", i)]
        \o << Command("feed", 0), Command("cut", 0), Command("close", 0) >>

\* printer.js lines 280-290: the test page.
testCommands ==
    << Command("text", 1), Command("feed", 0), Command("text", 2),
       Command("text", 3), Command("feed", 0), Command("cut", 0),
       Command("close", 0) >>

(***************************************************************************)
(* print-handler.js lines 127-140: the calls forEach makes on the Printer  *)
(* object, with the alignment and the style it sets for each line.         *)
(***************************************************************************)
Call(c, a, i) == [call |-> c, arg |-> a, line |-> i]

\* String.prototype.startsWith.
startsWith(s, p) == Len(p) <= Len(s) /\ \A j \in 1..Len(p) : s[j] = p[j]

\* Lines 129-139 with the two tests in the other order.
lineCalls_boldFirst(line, i) ==
    IF startsWith(line, TxtTotal) \/ startsWith(line, TxtSubtotal)
    THEN << Call("align", "lt", i), Call("style", "b", i),
            Call("text", "", i), Call("style", "normal", i) >>
    ELSE IF \/ includes(line, repeat("=", 10))
            \/ includes(line, << "T", "h", "a", "n", "k", " ", "y", "o",
                                 "u" >>)
            \/ includes(line, << "P", "l", "e", "a", "s", "e", " ", "c",
                                 "o", "m", "e" >>)
            \/ (TxtStoreName # << >> /\ includes(line, TxtStoreName))
    THEN << Call("align", "ct", i), Call("text", "", i) >>
    ELSE << Call("align", "lt", i), Call("text", "", i) >>

\* Lines 129-139: the calls made for the i-th line.  The store name is the
\* default of config.js.
lineCalls(line, i) ==
    IF \/ includes(line, repeat("=", 10))
       \/ includes(line, << "T", "h", "a", "n", "k", " ", "y", "o", "u" >>)
       \/ includes(line, << "P", "l", "e", "a", "s", "e", " ", "c", "o", "m",
                            "e" >>)
       \/ (TxtStoreName # << >> /\ includes(line, TxtStoreName))
    THEN << Call("align", "ct", i), Call("text", "", i) >>
    ELSE IF startsWith(line, TxtTotal) \/ startsWith(line, TxtSubtotal)
    THEN << Call("align", "lt", i), Call("style", "b", i),
            Call("text", "", i), Call("style", "normal", i) >>
    ELSE << Call("align", "lt", i), Call("text", "", i) >>

\* Lines 127-140: forEach from the i-th line on.  The text calls it makes
\* are the text commands of printCommands.
RECURSIVE forEachLine(_, _)
forEachLine(receiptLines, i) ==
    IF i > Len(receiptLines)
    THEN << >>
    ELSE lineCalls(receiptLines[i], i) \o forEachLine(receiptLines, i + 1)

(***************************************************************************)
(* print-handler.js: the places that call resetPrinter().                  *)
(***************************************************************************)
\* Line 110, the deadline callback.
timeoutCallback(m) == resetPrinter(m)

\* Line 152, after the settle delay.
printOperation_finish_noReset(m) == m

printOperation_finish(m) == resetPrinter(m)

\* Line 159, the catch block of printOperation.
printOperation_catch(m) == resetPrinter(m)

\* Line 170, the catch block of printReceiptCore.
printReceiptCore_catch_noReset(m) == m

printReceiptCore_catch(m) == resetPrinter(m)

(***************************************************************************)
(* What retryWithBackoff does, in the order it does it.                    *)
(***************************************************************************)
Event(e, ms) == [ev |-> e, ms |-> ms]

Current(r, a) == pc[r] = "racing" /\ attempt[r] = a

Finished ==
    {r \in Reqs : pc[r] \in {"coreResolved", "success", "testSuccess"}}

(***************************************************************************)
(* What a behaviour may spend.  A failure injected by the environment      *)
(* (an empty discovery, a failed open, a command that throws, a deadline   *)
(* that expires) costs one unit, and every request submitted after the     *)
(* first costs two.                                                        *)
(***************************************************************************)
Submitted == Cardinality({r \in Reqs : pc[r] # "idle"})

Load ==
    faults + (IF Submitted > 1 THEN 2 * (Submitted - 1) ELSE 0)
           + (IF shutdown.pc # "idle" THEN 1 ELSE 0)

MayFail == Load < Budget

MaySubmit == Submitted = 0 \/ Load + 2 <= Budget

MayShutDown == Load < Budget

\* print-handler.js lines 191-215: the order of printTest().
testData ==
    [id |-> << "T", "E", "S", "T", "0", "0", "1" >>,
     receipt_number |-> << "T", "E", "S", "T", "0", "0", "1" >>,
     cashier_name |->
         << "T", "e", "s", "t", " ", "C", "a", "s", "h", "i", "e", "r" >>,
     customer_name |-> << >>,
     items |->
         << [product_name |->
                 << "T", "e", "s", "t", " ", "P", "r", "o", "d", "u", "c",
                    "t", " ", "1" >>,
             quantity |-> 2, sell_price |-> 1050],
            [product_name |->
                 << "T", "e", "s", "t", " ", "P", "r", "o", "d", "u", "c",
                    "t", " ", "2" >>,
             quantity |-> 1, sell_price |-> 2500] >>,
     subtotal |-> 4600,
     tax |-> 0,
     discount |-> 0,
     total_amount |-> 4600,
     payment_method |-> << "c", "a", "s", "h" >>,
     payment_amount |-> 5000,
     payment_data |-> [member_name |-> << >>, member_code |-> << >>],
     footer_message |-> << >>]

ServerInit ==
    /\ printerAdapter = NULL
    /\ isInitialized = FALSE
    /\ initializationPromise = NoPromise
    /\ cfgType \in {"usb", "network", "serial"}
    /\ constructed = 0
    /\ discoveries = 0
    /\ closeCalled = {}
    /\ window = EmptyWindow
    /\ adapters = << >>
    /\ pc = [r \in Reqs |-> "idle"]
    /\ attempt = [r \in Reqs |-> 0]
    /\ acquired = [r \in Reqs |-> NoPromise]
    /\ coreError = [r \in Reqs |-> NoError]
    /\ outcome = [r \in Reqs |-> NoOutcome]
    /\ trace = [r \in Reqs |-> << >>]
    /\ finishedBefore = [r \in Reqs |-> {}]
    /\ faults = 0
    /\ operation = [r \in Reqs |-> [a \in Attempts |-> NoOperation]]
    /\ timer = [r \in Reqs |-> [a \in Attempts |-> "none"]]
    /\ emitted = [r \in Reqs |-> 0]
    /\ closed = {}
    /\ shutdown = NotShuttingDown

\* config.js lines 12 and 17-18 with an API key set and no identifier of
\* a printer.
NoIds == [vendorId |-> << >>, productId |-> << >>]

SomeKey == "secret"

Init ==
    /\ ServerInit
    /\ orderData = testData
    /\ paperWidth = DefaultPaperWidth
    /\ lines = << >>
    /\ printerCalls = << >>
    /\ usb = NoIds
    /\ apiKey = SomeKey

\* print-handler.js line 99: receiptLines = formatReceipt(orderData).  The
\* receipt of testData at the default width is worked out once.
testReceiptLines == formatReceipt(testData, DefaultPaperWidth)

receiptLines ==
    IF orderData = testData /\ paperWidth = DefaultPaperWidth
    THEN testReceiptLines
    ELSE formatReceipt(orderData, paperWidth)

(***************************************************************************)
(* operation() of retryWithBackoff: printReceiptCore runs up to its        *)
(* await initPrinter().  An empty discovery is a failure of the            *)
(* environment.                                                            *)
(***************************************************************************)
printReceiptCore(r) ==
    /\ \E found \in BOOLEAN :
          /\ found \/ MayFail
          /\ SetManager(initPrinter(Manager, found))
          /\ acquired' = [acquired EXCEPT
                             ![r] = initPrinter(Manager, found).returned]
          /\ faults' = IF initPrinter(Manager, found).returned
                            = Rejected(Err("NoDevice"))
                          /\ initPrinter(Manager, found).discoveries
                               # discoveries
                       THEN faults + 1 ELSE faults
    /\ pc' = [pc EXCEPT ![r] = "acquiring"]
    /\ trace' = [trace EXCEPT ![r] = Append(@, Event("call", 0))]
    /\ UNCHANGED << cfgType, closed, shutdown, attempt, coreError, outcome,
                    operation, timer, emitted, formatVars, configVars >>

\* printReceipt(orderData): retryWithBackoff enters its loop with attempt = 0.
\* Requests are numbered in the order of their submission.
printReceipt(r) ==
    /\ shutdown.exit = "none"
    /\ pc[r] = "idle"
    /\ \A q \in Reqs : q < r => pc[q] # "idle"
    /\ MaySubmit
    /\ finishedBefore' = [finishedBefore EXCEPT ![r] = Finished]
    /\ printReceiptCore(r)

(***************************************************************************)
(* server.js: the handler of POST /print.  A request body is a JSON value: *)
(* its type, and for an object the value of its items field; an array is   *)
(* the sequence of its elements, an item the values of its quantity and    *)
(* sell_price fields (an amount in cents; Undefined for a field not        *)
(* given; the price field, read when sell_price is not given, is left      *)
(* out).                                                                   *)
(***************************************************************************)
Undefined == [type |-> "undefined"]

Number(n) == [type |-> "number", value |-> n]

ValidItem ==
    [type |-> "object", quantity |-> Number(1),
     sell_price |-> Number(SmallAmount)]

Bodies ==
    {[type |-> "string"],
     [type |-> "object", items |-> Undefined],
     [type |-> "object", items |-> [type |-> "null"]],
     [type |-> "object", items |-> [type |-> "string", length |-> 0]],
     [type |-> "object", items |-> [type |-> "string", length |-> 1]],
     [type |-> "object", items |-> Number(1)],
     [type |-> "object", items |-> [type |-> "object"]],
     [type |-> "object", items |-> [type |-> "array", elems |-> << >>]],
     [type |-> "object",
      items |-> [type |-> "array", elems |-> << ValidItem >>]],
     [type |-> "object",
      items |-> [type |-> "array", elems |-> << ValidItem, ValidItem >>]],
     [type |-> "object",
      items |-> [type |-> "array",
                 elems |-> [i \in 1..(MAX_ORDER_ITEMS + 1) |-> ValidItem]]],
     [type |-> "object",
      items |-> [type |-> "array", elems |-> << [type |-> "null"] >>]],
     [type |-> "object",
      items |-> [type |-> "array",
                 elems |-> << ValidItem,
                              [type |-> "object", quantity |-> Number(-1),
                               sell_price |-> Number(SmallAmount)] >>]],
     [type |-> "object",
      items |-> [type |-> "array",
                 elems |-> << [type |-> "object", quantity |-> Undefined,
                               sell_price |-> Number(-1)] >>]]}

\* The ! operator of JavaScript on a value.
falsy(v) ==
    CASE v.type \in {"undefined", "null"} -> TRUE
      [] v.type = "string" -> v.length = 0
      [] v.type = "number" -> v.value = 0
      [] OTHER -> FALSE

\* Lines 232-250: what the loop finds wrong with one item.
invalidNumber(v) ==
    v.type # "undefined" /\ (v.type # "number" \/ v.value < 0)

invalidItem(item) ==
    \/ item.type # "object"
    \/ invalidNumber(item.quantity)
    \/ invalidNumber(item.sell_price)

\* Lines 206-251: the error the handler answers with, or "ok".
validateOrder_acceptsEmpty(body) ==
    IF body.type # "object"
    THEN "InvalidBody"
    ELSE IF falsy(body.items) \/ body.items.type # "array"
    THEN "InvalidItems"
    ELSE IF Len(body.items.elems) > MAX_ORDER_ITEMS
    THEN "TooManyItems"
    ELSE IF \E i \in 1..Len(body.items.elems) :
                invalidItem(body.items.elems[i])
    THEN "InvalidItem"
    ELSE "ok"

validateOrder(body) ==
    IF body.type # "object"
    THEN "InvalidBody"
    ELSE IF \/ falsy(body.items)
            \/ body.items.type # "array"
            \/ Len(body.items.elems) = 0
    THEN "InvalidItems"
    ELSE IF Len(body.items.elems) > MAX_ORDER_ITEMS
    THEN "TooManyItems"
    ELSE IF \E i \in 1..Len(body.items.elems) :
                invalidItem(body.items.elems[i])
    THEN "InvalidItem"
    ELSE "ok"

\* Lines 207-210, 215-218, 223-226 and 233-249: the handler returns the
\* response of status 400 and calls nothing else.
postPrint_reject(r, error) ==
    /\ pc' = [pc EXCEPT ![r] = "badRequest"]
    /\ outcome' = [outcome EXCEPT ![r].error = Err(error)]
    /\ UNCHANGED << managerVars, cfgType, closed, shutdown, attempt, acquired,
                    coreError, trace, finishedBefore, faults, operation,
                    timer, emitted, formatVars, configVars >>

\* Lines 201-257: the handler up to its await printReceipt(orderData).
postPrint(r, body) ==
    /\ shutdown.exit = "none"
    /\ pc[r] = "idle"
    /\ \A q \in Reqs : q < r => pc[q] # "idle"
    /\ MaySubmit
    /\ IF validateOrder(body) = "ok"
       THEN printReceipt(r)
       ELSE postPrint_reject(r, validateOrder(body))

\* Lines 92-97, 119-127, 207, 215, 223, 233 and 258-266: the response to a
\* request.
Response(r) ==
    CASE pc[r] = "tooMany" ->
             [status |-> 429, success |-> FALSE, sent |-> TRUE]
      [] pc[r] = "unauthorized" ->
             [status |-> 401, success |-> FALSE, sent |-> TRUE]
      [] pc[r] = "badRequest" ->
             [status |-> 400, success |-> FALSE, sent |-> TRUE]
      [] pc[r] = "failed" ->
             [status |-> 500, success |-> FALSE, sent |-> TRUE]
      [] pc[r] = "success" ->
             [status |-> 200, success |-> outcome[r].success, sent |-> TRUE]
      [] OTHER ->
             [status |-> 0, success |-> FALSE, sent |-> FALSE]

(***************************************************************************)
(* printReceiptCore resumes from await initPrinter() with a rejection:     *)
(* its catch block resets the connection and rethrows.                     *)
(***************************************************************************)
AcquireRejected(r) ==
    /\ pc[r] = "acquiring"
    /\ acquired[r].handle = NULL
    /\ SetManager(printReceiptCore_catch(Manager))
    /\ coreError' = [coreError EXCEPT ![r] = acquired[r].error]
    /\ acquired' = [acquired EXCEPT ![r] = NoPromise]
    /\ pc' = [pc EXCEPT ![r] = "coreRejected"]
    /\ UNCHANGED << cfgType, closed, shutdown, attempt, outcome, trace,
                    finishedBefore, faults, operation, timer, emitted,
                    formatVars, configVars >>

(***************************************************************************)
(* printReceiptCore resumes with a handle: it formats the receipt, arms    *)
(* the deadline timer and starts printOperation, which runs up to its      *)
(* await openAdapter(adapter).                                             *)
(***************************************************************************)
AcquireResolved(r) ==
    /\ pc[r] = "acquiring"
    /\ acquired[r].handle # NULL
    /\ timer' = [timer EXCEPT ![r][attempt[r]] = "armed"]
    /\ operation' = [operation EXCEPT ![r][attempt[r]] =
                        [state |-> "opening", handle |-> acquired[r].handle,
                         sent |-> << >>]]
    /\ acquired' = [acquired EXCEPT ![r] = NoPromise]
    /\ pc' = [pc EXCEPT ![r] = "racing"]
    /\ UNCHANGED << managerVars, cfgType, closed, shutdown, attempt,
                    coreError, outcome, trace, finishedBefore, faults,
                    emitted, formatVars, configVars >>

(***************************************************************************)
(* printOperation rejects: its catch block resets the connection; if       *)
(* Promise.race is still undecided, printReceiptCore's catch block runs    *)
(* too.  The then() callback that clears the timer handles fulfilment      *)
(* only, so the timer stays armed.                                         *)
(***************************************************************************)
OperationRejects_swallows(r, a, e) ==
    /\ MayFail
    /\ faults' = faults + 1
    /\ operation' = [operation EXCEPT ![r][a] = NoOperation]
    /\ SetManager(printOperation_catch(Manager))
    /\ pc' = [pc EXCEPT ![r] = IF Current(r, a) THEN "coreResolved" ELSE @]
    /\ UNCHANGED << cfgType, closed, shutdown, attempt, acquired, coreError,
                    outcome, trace, finishedBefore, timer, emitted,
                    formatVars, configVars >>

OperationRejects(r, a, e) ==
    /\ MayFail
    /\ faults' = faults + 1
    /\ operation' = [operation EXCEPT ![r][a] = NoOperation]
    /\ IF Current(r, a)
       THEN /\ SetManager(printReceiptCore_catch(
                              printOperation_catch(Manager)))
            /\ coreError' = [coreError EXCEPT ![r] = e]
            /\ pc' = [pc EXCEPT ![r] = "coreRejected"]
       ELSE /\ SetManager(printOperation_catch(Manager))
            /\ UNCHANGED << coreError, pc >>
    /\ UNCHANGED << cfgType, closed, shutdown, attempt, acquired, outcome,
                    trace, finishedBefore, timer, emitted, formatVars,
                    configVars >>

\* openAdapter(adapter) rejects.
OpenFails(r, a) ==
    /\ operation[r][a].state = "opening"
    /\ OperationRejects(r, a, Err("OpenFailed"))

\* openAdapter(adapter) resolves and a printer command throws.
EmissionFails(r, a) ==
    /\ operation[r][a].state = "opening"
    /\ \E k \in {"DriverBusy", "DriverGone"} : OperationRejects(r, a, Err(k))

\* openAdapter(adapter) resolves; every line, feed, cut and close are sent
\* (the lines are those formatReceipt returned at line 99, for the same
\* order), and printOperation awaits the settle delay.
OpenSucceeds(r, a) ==
    /\ operation[r][a].state = "opening"
    /\ operation' = [operation EXCEPT
                        ![r][a].state = "settling",
                        ![r][a].sent = printCommands(receiptLines)]
    /\ emitted' = [emitted EXCEPT ![r] = @ + 1]
    /\ UNCHANGED << managerVars, cfgType, closed, shutdown, pc, attempt,
                    acquired, coreError, outcome, trace, finishedBefore,
                    faults, timer, formatVars, configVars >>

\* The settle delay elapses: printOperation resets the connection and
\* resolves; the then() callback clears the deadline timer.
SettleDelayElapses(r, a) ==
    /\ operation[r][a].state = "settling"
    /\ operation' = [operation EXCEPT ![r][a] = NoOperation]
    /\ SetManager(printOperation_finish(Manager))
    /\ timer' = [timer EXCEPT ![r][a] = "none"]
    /\ pc' = [pc EXCEPT ![r] = IF Current(r, a) THEN "coreResolved" ELSE @]
    /\ UNCHANGED << cfgType, closed, shutdown, attempt, acquired, coreError,
                    outcome, trace, finishedBefore, faults, emitted,
                    formatVars, configVars >>

\* The deadline timer of an attempt fires: the callback resets the
\* connection and rejects timeoutPromise; if Promise.race is still
\* undecided, printReceiptCore's catch block runs.
DeadlineFires_noReject(r, a) ==
    /\ timer[r][a] = "armed"
    /\ timer' = [timer EXCEPT ![r][a] = "none"]
    /\ SetManager(timeoutCallback(Manager))
    /\ UNCHANGED << cfgType, closed, shutdown, pc, attempt, acquired,
                    coreError, outcome, trace, finishedBefore, faults,
                    operation, emitted, formatVars, configVars >>

DeadlineFires(r, a) ==
    /\ timer[r][a] = "armed"
    /\ timer' = [timer EXCEPT ![r][a] = "none"]
    /\ IF Current(r, a)
       THEN /\ MayFail
            /\ faults' = faults + 1
            /\ SetManager(printReceiptCore_catch(timeoutCallback(Manager)))
            /\ coreError' = [coreError EXCEPT ![r] = Err("Timeout")]
            /\ pc' = [pc EXCEPT ![r] = "coreRejected"]
       ELSE /\ SetManager(timeoutCallback(Manager))
            /\ UNCHANGED << coreError, pc, faults >>
    /\ UNCHANGED << cfgType, closed, shutdown, attempt, acquired, outcome,
                    trace, finishedBefore, operation, emitted, formatVars,
                    configVars >>

(***************************************************************************)
(* retryWithBackoff resumes from await operation().                        *)
(***************************************************************************)
\* Lines 50-59 of the next iteration: reset, then sleep(delay).
RetryIteration_noReset(r, delay) ==
    /\ UNCHANGED managerVars
    /\ trace' = [trace EXCEPT ![r] = Append(@, Event("wait", delay))]

RetryIteration(r, delay) ==
    /\ SetManager(resetPrinter(Manager))
    /\ trace' = [trace EXCEPT ![r] =
                    @ \o << Event("reset", 0), Event("wait", delay) >>]

retryWithBackoff_catch(r) ==
    /\ pc[r] = "coreRejected"
    /\ coreError' = [coreError EXCEPT ![r] = NoError]
    /\ IF Permanent(coreError[r])
       THEN /\ pc' = [pc EXCEPT ![r] = "failed"]
            /\ outcome' = [outcome EXCEPT ![r].error = coreError[r]]
            /\ UNCHANGED << managerVars, attempt, trace >>
       ELSE IF RetriesExhausted(attempt[r], MAX_RETRY_ATTEMPTS)
       THEN /\ pc' = [pc EXCEPT ![r] = "failed"]
            /\ outcome' = [outcome EXCEPT ![r].error =
                              WrappedError(MAX_RETRY_ATTEMPTS, coreError[r])]
            /\ UNCHANGED << managerVars, attempt, trace >>
       ELSE /\ attempt' = [attempt EXCEPT ![r] = @ + 1]
            /\ RetryIteration(r, BackoffDelay(attempt[r] + 1))
            /\ pc' = [pc EXCEPT ![r] = "backoff"]
            /\ UNCHANGED outcome
    /\ UNCHANGED << cfgType, closed, shutdown, acquired, finishedBefore,
                    faults, operation, timer, emitted, formatVars,
                    configVars >>

\* sleep(delay) elapses: operation() is called again.
SleepElapses(r) ==
    /\ pc[r] = "backoff"
    /\ UNCHANGED finishedBefore
    /\ printReceiptCore(r)

\* Lines 63-69 with the return left out: the loop calls operation() again.
retryWithBackoff_return_again(r) ==
    /\ pc[r] = "coreResolved"
    /\ UNCHANGED finishedBefore
    /\ printReceiptCore(r)

retryWithBackoff_return(r) ==
    /\ pc[r] = "coreResolved"
    /\ pc' = [pc EXCEPT ![r] = "success"]
    /\ outcome' = [outcome EXCEPT ![r].success = TRUE]
    /\ UNCHANGED << managerVars, cfgType, closed, shutdown, attempt, acquired,
                    coreError, trace, finishedBefore, faults, operation,
                    timer, emitted, formatVars, configVars >>

(***************************************************************************)
(* printer.js: testPrinter(), the connectivity test of GET /test.  It has  *)
(* one attempt, whose operation and timer are those of index 0.            *)
(***************************************************************************)
TestStates == {"testAcquiring", "testRacing", "testSuccess", "testFailed"}

\* Line 257: testPrinter runs up to its await initPrinter().
testPrinter(r) ==
    /\ shutdown.exit = "none"
    /\ pc[r] = "idle"
    /\ \A q \in Reqs : q < r => pc[q] # "idle"
    /\ MaySubmit
    /\ \E found \in BOOLEAN :
          /\ found \/ MayFail
          /\ SetManager(initPrinter(Manager, found))
          /\ acquired' = [acquired EXCEPT
                             ![r] = initPrinter(Manager, found).returned]
          /\ faults' = IF initPrinter(Manager, found).returned
                            = Rejected(Err("NoDevice"))
                          /\ initPrinter(Manager, found).discoveries
                               # discoveries
                       THEN faults + 1 ELSE faults
    /\ pc' = [pc EXCEPT ![r] = "testAcquiring"]
    /\ finishedBefore' = [finishedBefore EXCEPT ![r] = Finished]
    /\ UNCHANGED << cfgType, closed, shutdown, attempt, coreError, outcome,
                    trace, operation, timer, emitted, formatVars,
                    configVars >>

\* Lines 311-314: initPrinter() rejected; the catch block resets and throws.
TestAcquireRejected(r) ==
    /\ pc[r] = "testAcquiring"
    /\ acquired[r].handle = NULL
    /\ SetManager(resetPrinter(Manager))
    /\ outcome' = [outcome EXCEPT ![r].error = acquired[r].error]
    /\ acquired' = [acquired EXCEPT ![r] = NoPromise]
    /\ pc' = [pc EXCEPT ![r] = "testFailed"]
    /\ UNCHANGED << cfgType, closed, shutdown, attempt, coreError, trace,
                    finishedBefore, faults, operation, timer, emitted,
                    formatVars, configVars >>

\* Lines 259-266: the timer of 10000 ms is armed and adapter.open() called.
TestAcquireResolved(r) ==
    /\ pc[r] = "testAcquiring"
    /\ acquired[r].handle # NULL
    /\ timer' = [timer EXCEPT ![r][0] = "testArmed"]
    /\ operation' = [operation EXCEPT ![r][0] =
                        [state |-> "testOpening",
                         handle |-> acquired[r].handle, sent |-> << >>]]
    /\ acquired' = [acquired EXCEPT ![r] = NoPromise]
    /\ pc' = [pc EXCEPT ![r] = "testRacing"]
    /\ UNCHANGED << managerVars, cfgType, closed, shutdown, attempt,
                    coreError, outcome, trace, finishedBefore, faults,
                    emitted, formatVars, configVars >>

\* Lines 267-271 without the resetPrinter() call of line 269.
TestOpenFails_noReset(r) ==
    /\ operation[r][0].state = "testOpening"
    /\ MayFail
    /\ faults' = faults + 1
    /\ operation' = [operation EXCEPT ![r][0] = NoOperation]
    /\ timer' = [timer EXCEPT ![r][0] = "none"]
    /\ IF pc[r] = "testRacing"
       THEN /\ pc' = [pc EXCEPT ![r] = "testFailed"]
            /\ \E k \in {"OpenFailed", "DriverBusy"} :
                  outcome' = [outcome EXCEPT ![r].error = Err(k)]
       ELSE UNCHANGED << pc, outcome >>
    /\ UNCHANGED << managerVars, cfgType, closed, shutdown, attempt, acquired,
                    coreError, trace, finishedBefore, emitted, formatVars,
                    configVars >>

\* Lines 267-271, 299-303 and 305-309: the open callback is given an error,
\* a printer command throws, or adapter.open() itself throws; the timer is
\* cleared, the connection reset and the promise rejected.
TestOpenFails(r) ==
    /\ operation[r][0].state = "testOpening"
    /\ MayFail
    /\ faults' = faults + 1
    /\ operation' = [operation EXCEPT ![r][0] = NoOperation]
    /\ timer' = [timer EXCEPT ![r][0] = "none"]
    /\ SetManager(resetPrinter(Manager))
    /\ IF pc[r] = "testRacing"
       THEN /\ pc' = [pc EXCEPT ![r] = "testFailed"]
            /\ \E k \in {"OpenFailed", "DriverBusy"} :
                  outcome' = [outcome EXCEPT ![r].error = Err(k)]
       ELSE UNCHANGED << pc, outcome >>
    /\ UNCHANGED << cfgType, closed, shutdown, attempt, acquired, coreError,
                    trace, finishedBefore, emitted, formatVars, configVars >>

\* Lines 274-298: the test page is sent and the settle timer started.
TestOpenSucceeds(r) ==
    /\ operation[r][0].state = "testOpening"
    /\ operation' = [operation EXCEPT ![r][0].state = "testSettling",
                                      ![r][0].sent = testCommands]
    /\ emitted' = [emitted EXCEPT ![r] = @ + 1]
    /\ UNCHANGED << managerVars, cfgType, closed, shutdown, pc, attempt,
                    acquired, coreError, outcome, trace, finishedBefore,
                    faults, timer, formatVars, configVars >>

\* Lines 293-298: the settle timer fires; the deadline timer is cleared,
\* the connection reset and the promise resolved.
TestSettleDelayElapses(r) ==
    /\ operation[r][0].state = "testSettling"
    /\ operation' = [operation EXCEPT ![r][0] = NoOperation]
    /\ timer' = [timer EXCEPT ![r][0] = "none"]
    /\ SetManager(resetPrinter(Manager))
    /\ IF pc[r] = "testRacing"
       THEN /\ pc' = [pc EXCEPT ![r] = "testSuccess"]
            /\ outcome' = [outcome EXCEPT ![r].success = TRUE]
       ELSE UNCHANGED << pc, outcome >>
    /\ UNCHANGED << cfgType, closed, shutdown, attempt, acquired, coreError,
                    trace, finishedBefore, faults, emitted, formatVars,
                    configVars >>

\* Lines 260-263: the deadline timer fires; the connection is reset and the
\* promise rejected, while the open callback may still come.
TestDeadlineFires(r) ==
    /\ timer[r][0] = "testArmed"
    /\ MayFail
    /\ faults' = faults + 1
    /\ timer' = [timer EXCEPT ![r][0] = "none"]
    /\ SetManager(resetPrinter(Manager))
    /\ pc' = [pc EXCEPT ![r] = "testFailed"]
    /\ outcome' = [outcome EXCEPT ![r].error = Err("Timeout")]
    /\ UNCHANGED << cfgType, closed, shutdown, attempt, acquired, coreError,
                    trace, finishedBefore, operation, emitted, formatVars,
                    configVars >>

(***************************************************************************)
(* The driver fires the callback of a close() call.                        *)
(***************************************************************************)
CloseCompletes(h) ==
    /\ h \in closeCalled \ closed
    /\ closed' = closed \cup {h}
    /\ UNCHANGED << managerVars, cfgType, shutdown, pc, attempt, acquired,
                    coreError, outcome, trace, finishedBefore, faults,
                    operation, timer, emitted, formatVars, configVars >>

(***************************************************************************)
(* server.js: gracefulShutdown calls closePrinter(), which runs up to its  *)
(* await if a handle is stored and returns at once if none is; once the    *)
(* await of line 308 is over it calls server.close(), whose callback runs  *)
(* when the last connection has ended and exits the process.               *)
(***************************************************************************)
\* Line 313: server.close() is called.
serverClose(sd) == [sd EXCEPT !.server = "closing"]

\* Lines 305-317 with server.close() called before closePrinter() is
\* awaited.
gracefulShutdown_closesServerFirst ==
    /\ shutdown.pc = "idle"
    /\ MayShutDown
    /\ IF printerAdapter # NULL
       THEN /\ SetManager(closePrinter_close(Manager))
            /\ shutdown' = serverClose([shutdown EXCEPT
                                            !.pc = "closing",
                                            !.handle = printerAdapter])
       ELSE /\ UNCHANGED managerVars
            /\ shutdown' = serverClose([shutdown EXCEPT !.pc = "closed"])
    /\ UNCHANGED << cfgType, closed, pc, attempt, acquired, coreError,
                    outcome, trace, finishedBefore, faults, operation, timer,
                    emitted, formatVars, configVars >>

gracefulShutdown ==
    /\ shutdown.pc = "idle"
    /\ MayShutDown
    /\ IF printerAdapter # NULL
       THEN /\ SetManager(closePrinter_close(Manager))
            /\ shutdown' = [shutdown EXCEPT !.pc = "closing",
                                            !.handle = printerAdapter]
       ELSE /\ UNCHANGED managerVars
            /\ shutdown' = serverClose([shutdown EXCEPT !.pc = "closed"])
    /\ UNCHANGED << cfgType, closed, pc, attempt, acquired, coreError,
                    outcome, trace, finishedBefore, faults, operation, timer,
                    emitted, formatVars, configVars >>

\* closePrinter resumes, the close callback or the 2000 ms timer having
\* resolved the promise it awaits, and runs its finally block; then
\* gracefulShutdown resumes and calls server.close().
closePrinter_resume ==
    /\ shutdown.pc = "closing"
    /\ SetManager(closePrinter_finally(Manager))
    /\ shutdown' = serverClose([shutdown EXCEPT !.pc = "closed"])
    /\ UNCHANGED << cfgType, closed, pc, attempt, acquired, coreError,
                    outcome, trace, finishedBefore, faults, operation, timer,
                    emitted, formatVars, configVars >>

\* A request whose response has not been sent keeps its connection open.
Answered(r) ==
    pc[r] \in {"idle", "success", "failed", "testSuccess", "testFailed",
               "badRequest", "unauthorized", "tooMany"}

\* Lines 313-316: the last connection has ended, the callback of
\* server.close() runs and calls process.exit(0).  The timers and the
\* callbacks still pending end with the process.
serverClosed ==
    /\ shutdown.server = "closing"
    /\ \A r \in Reqs : Answered(r)
    /\ shutdown' = [shutdown EXCEPT !.server = "closed", !.exit = "0"]
    /\ operation' = [r \in Reqs |-> [a \in Attempts |-> NoOperation]]
    /\ timer' = [r \in Reqs |-> [a \in Attempts |-> "none"]]
    /\ UNCHANGED << managerVars, cfgType, closed, pc, attempt, acquired,
                    coreError, outcome, trace, finishedBefore, faults,
                    emitted, formatVars, configVars >>

(***************************************************************************)
(* server.js: the routes with their middleware.  A route runs its rate     *)
(* limiter, then authenticateApiKey, then its handler.  Whether the        *)
(* limiter lets a request through depends on the requests its client has   *)
(* sent in the window, which may be requests answered with 401 that have   *)
(* left no other trace: it is an input.  A header is Undefined when the    *)
(* request does not carry it.                                              *)
(***************************************************************************)
Headers ==
    {Undefined,
     [type |-> "string", length |-> 0, value |-> ""],
     [type |-> "string", length |-> 6, value |-> SomeKey],
     [type |-> "string", length |-> 5, value |-> "wrong"]}

\* Lines 90-103: TRUE when next() is called, FALSE when 401 is sent.
authenticateApiKey_acceptsMissing(key) ==
    ~(~falsy(key) /\ key.value # apiKey)

authenticateApiKey(key) == ~(falsy(key) \/ key.value # apiKey)

\* A request arrives; requests are numbered in the order of their arrival.
Arrives(r) ==
    /\ shutdown.exit = "none"
    /\ pc[r] = "idle"
    /\ \A q \in Reqs : q < r => pc[q] # "idle"
    /\ MaySubmit

\* Lines 119-127 and 140-148 (the handler of a limiter) and lines 94-97:
\* the response is sent and next() is not called.
respond(r, answer) ==
    /\ pc' = [pc EXCEPT ![r] = answer]
    /\ UNCHANGED << managerVars, cfgType, closed, shutdown, attempt,
                    acquired, coreError, outcome, trace, finishedBefore,
                    faults, operation, timer, emitted, formatVars,
                    configVars >>

\* Line 168: app.get('/test', testLimiter, authenticateApiKey, handler).
getTest(r, limited, key) ==
    /\ Arrives(r)
    /\ IF limited
       THEN respond(r, "tooMany")
       ELSE IF ~authenticateApiKey(key)
       THEN respond(r, "unauthorized")
       ELSE testPrinter(r)

\* Line 186: app.post('/test-receipt', testLimiter, authenticateApiKey,
\* handler); the handler calls printTest(), which calls printReceipt.
postTestReceipt(r, limited, key) ==
    /\ Arrives(r)
    /\ IF limited
       THEN respond(r, "tooMany")
       ELSE IF ~authenticateApiKey(key)
       THEN respond(r, "unauthorized")
       ELSE printReceipt(r)

\* Line 201: app.post('/print', printLimiter, authenticateApiKey, handler).
postPrintRoute(r, limited, key, body) ==
    /\ Arrives(r)
    /\ IF limited
       THEN respond(r, "tooMany")
       ELSE IF ~authenticateApiKey(key)
       THEN respond(r, "unauthorized")
       ELSE postPrint(r, body)

Next ==
    \/ \E r \in Reqs : printReceipt(r)
    \/ \E r \in Reqs, body \in Bodies : postPrint(r, body)
    \/ \E r \in Reqs : AcquireRejected(r)
    \/ \E r \in Reqs : AcquireResolved(r)
    \/ \E r \in Reqs, a \in Attempts : OpenFails(r, a)
    \/ \E r \in Reqs, a \in Attempts : EmissionFails(r, a)
    \/ \E r \in Reqs, a \in Attempts : OpenSucceeds(r, a)
    \/ \E r \in Reqs, a \in Attempts : SettleDelayElapses(r, a)
    \/ \E r \in Reqs, a \in Attempts : DeadlineFires(r, a)
    \/ \E r \in Reqs : retryWithBackoff_catch(r)
    \/ \E r \in Reqs : SleepElapses(r)
    \/ \E r \in Reqs : retryWithBackoff_return(r)
    \/ \E r \in Reqs : testPrinter(r)
    \/ \E r \in Reqs : TestAcquireRejected(r)
    \/ \E r \in Reqs : TestAcquireResolved(r)
    \/ \E r \in Reqs : TestOpenFails(r)
    \/ \E r \in Reqs : TestOpenSucceeds(r)
    \/ \E r \in Reqs : TestSettleDelayElapses(r)
    \/ \E r \in Reqs : TestDeadlineFires(r)
    \/ gracefulShutdown
    \/ closePrinter_resume
    \/ serverClosed

\* The callbacks of close() are read by no statement of the program except
\* the await of closePrinter, which its timer resolves as well: Spec leaves
\* them out and DriverSpec follows them.
DriverNext ==
    \/ Next
    \/ \E h \in 1..constructed : CloseCompletes(h)

\* The server behind its routes, with the API key validateConfig requires.
HttpInit ==
    /\ ServerInit
    /\ cfgType = "usb"
    /\ orderData = testData
    /\ paperWidth = DefaultPaperWidth
    /\ lines = << >>
    /\ printerCalls = << >>
    /\ usb = NoIds
    /\ apiKey = SomeKey    \* validateConfig exits on an empty API_KEY

HttpNext ==
    \/ \E r \in Reqs, limited \in BOOLEAN, key \in Headers :
          getTest(r, limited, key)
    \/ \E r \in Reqs, limited \in BOOLEAN, key \in Headers :
          postTestReceipt(r, limited, key)
    \/ \E r \in Reqs, limited \in BOOLEAN, key \in Headers, body \in Bodies :
          postPrintRoute(r, limited, key, body)
    \/ \E r \in Reqs : AcquireRejected(r)
    \/ \E r \in Reqs : AcquireResolved(r)
    \/ \E r \in Reqs, a \in Attempts : OpenFails(r, a)
    \/ \E r \in Reqs, a \in Attempts : EmissionFails(r, a)
    \/ \E r \in Reqs, a \in Attempts : OpenSucceeds(r, a)
    \/ \E r \in Reqs, a \in Attempts : SettleDelayElapses(r, a)
    \/ \E r \in Reqs, a \in Attempts : DeadlineFires(r, a)
    \/ \E r \in Reqs : retryWithBackoff_catch(r)
    \/ \E r \in Reqs : SleepElapses(r)
    \/ \E r \in Reqs : retryWithBackoff_return(r)
    \/ \E r \in Reqs : TestAcquireRejected(r)
    \/ \E r \in Reqs : TestAcquireResolved(r)
    \/ \E r \in Reqs : TestOpenFails(r)
    \/ \E r \in Reqs : TestOpenSucceeds(r)
    \/ \E r \in Reqs : TestSettleDelayElapses(r)
    \/ \E r \in Reqs : TestDeadlineFires(r)
    \/ gracefulShutdown
    \/ closePrinter_resume
    \/ serverClosed

Spec == Init /\ [][Next]_vars

HttpSpec == HttpInit /\ [][HttpNext]_vars

DriverSpec == Init /\ [][DriverNext]_vars

(***************************************************************************)
(* printer.js on its own, under each configuration of USB_VENDOR_ID and    *)
(* USB_PRODUCT_ID (neither, one of them, or both): initPrinter() and       *)
(* resetPrinter() called in any order, each discovery finding a printer    *)
(* or none.                                                                *)
(***************************************************************************)
UsbIds ==
    {[vendorId |-> v, productId |-> p] :
         v \in {<< >>, << "0", "4", "b", "8" >>},
         p \in {<< >>, << "0", "2", "0", "2" >>}}

UsbInit ==
    /\ ServerInit
    /\ cfgType = "usb"
    /\ orderData = testData
    /\ paperWidth = DefaultPaperWidth
    /\ lines = << >>
    /\ printerCalls = << >>
    /\ usb \in UsbIds
    /\ apiKey = SomeKey

initPrinterCalled(found) ==
    /\ discoveries < MaxDiscoveries
    /\ SetManager(initPrinter(Manager, found))
    /\ UNCHANGED << cfgType, closed, shutdown, pc, attempt, acquired,
                    coreError, outcome, trace, finishedBefore, faults,
                    operation, timer, emitted, formatVars, configVars >>

resetPrinterCalled ==
    /\ SetManager(resetPrinter(Manager))
    /\ UNCHANGED << cfgType, closed, shutdown, pc, attempt, acquired,
                    coreError, outcome, trace, finishedBefore, faults,
                    operation, timer, emitted, formatVars, configVars >>

UsbNext ==
    \/ \E found \in BOOLEAN : initPrinterCalled(found)
    \/ resetPrinterCalled

UsbSpec == UsbInit /\ [][UsbNext]_vars

(***************************************************************************)
(* receipt-formatter.js on its own: formatReceipt applied to one order of  *)
(* a bounded set, under each paper width.                                  *)
(***************************************************************************)
Texts == {repeat("x", n) : n \in {0, ShortText, LongText}}

\* Product names that carry the marks the printing looks for in a line.
MarkedNames ==
    {TxtTotal \o << " ", "T", "h", "a", "n", "k", " ", "y", "o", "u" >>,
     TxtStoreName \o << " ", "m", "u", "g" >>}

Orders ==
    {[id |-> << >>,
      receipt_number |-> number,
      cashier_name |-> cashier,
      customer_name |-> customer,
      items |-> [i \in 1..count |->
                    [product_name |-> product, quantity |-> 2,
                     sell_price |-> amount]],
      subtotal |-> 0,
      tax |-> SmallAmount,
      discount |-> 0,
      total_amount |-> amount,
      payment_method |-> method,
      payment_amount |-> LargeAmount,
      payment_data |-> [member_name |-> member,
                        member_code |-> repeat("x", ShortText)],
      footer_message |-> footer] :
         number \in Texts, cashier \in {<< >>, repeat("x", ShortText)},
         customer \in Texts, product \in Texts \cup MarkedNames,
         member \in Texts,
         footer \in Texts, count \in 1..MaxItems,
         amount \in {SmallAmount, LargeAmount},
         method \in {<< "c", "a", "s", "h" >>, repeat("x", LongText)}}

FormatInit ==
    /\ ServerInit
    /\ cfgType = "usb"
    /\ orderData \in Orders
    /\ paperWidth \in PaperWidths
    /\ lines = << >>
    /\ printerCalls = << >>
    /\ usb = NoIds
    /\ apiKey = SomeKey

FormatReceipt ==
    /\ lines = << >>
    /\ lines' = formatReceipt(orderData, paperWidth)
    /\ UNCHANGED << managerVars, cfgType, closed, shutdown, pc, attempt,
                    acquired, coreError, outcome, trace, finishedBefore,
                    faults, operation, timer, emitted, orderData,
                    paperWidth, printerCalls, configVars >>

\* print-handler.js lines 127-140: the lines are sent to the Printer.
printLines ==
    /\ lines # << >>
    /\ printerCalls = << >>
    /\ printerCalls' = forEachLine(lines, 1)
    /\ UNCHANGED << managerVars, cfgType, closed, shutdown, pc, attempt,
                    acquired, coreError, outcome, trace, finishedBefore,
                    faults, operation, timer, emitted, orderData,
                    paperWidth, lines, configVars >>

FormatNext ==
    \/ FormatReceipt
    \/ printLines

FormatSpec == FormatInit /\ [][FormatNext]_vars

(***************************************************************************)
(* What the event loop guarantees: a settled promise resumes the function  *)
(* that awaits it, and a timer that is set fires, the 2000 ms timer of     *)
(* closePrinter included.  The driver owes nothing: its open and close     *)
(* callbacks may never come.  Once the failures a behaviour may spend are  *)
(* spent, a deadline can no longer expire, and the driver is then taken to *)
(* answer.                                                                 *)
(***************************************************************************)
Resumes ==
    \E r \in Reqs :
        \/ AcquireRejected(r)
        \/ AcquireResolved(r)
        \/ retryWithBackoff_catch(r)
        \/ retryWithBackoff_return(r)

TimerFires ==
    \E r \in Reqs :
        \/ SleepElapses(r)
        \/ \E a \in Attempts : SettleDelayElapses(r, a)
        \/ \E a \in Attempts : DeadlineFires(r, a)

DriverAnswers ==
    /\ ~MayFail
    /\ \E r \in Reqs, a \in Attempts : OpenSucceeds(r, a)

FairSpec ==
    /\ Spec
    /\ WF_vars(Resumes)
    /\ WF_vars(TimerFires)
    /\ WF_vars(DriverAnswers)
    /\ WF_vars(closePrinter_resume)

TypeOK ==
    /\ printerAdapter \in 0..constructed
    /\ isInitialized \in BOOLEAN
    /\ pc \in [Reqs -> {"idle", "acquiring", "racing", "coreRejected",
                        "coreResolved", "backoff", "success", "failed",
                        "badRequest", "unauthorized", "tooMany"}
                           \cup TestStates]
    /\ attempt \in [Reqs -> Attempts]
    /\ faults \in 0..Budget
    /\ closed \subseteq closeCalled
    /\ closeCalled \subseteq 1..constructed
    /\ shutdown.pc \in {"idle", "closing", "closed"}

(***************************************************************************)
(* Properties.                                                             *)
(***************************************************************************)
Calls(t) == Cardinality({i \in 1..Len(t) : t[i].ev = "call"})

Waits(t) == SelectSeq(t, LAMBDA e : e.ev = "wait")

\* No request other than r is between its submission and its result.
Quiet(r) ==
    \A q \in Reqs \ {r} :
        pc[q] \in {"idle", "success", "failed", "testSuccess", "testFailed",
                   "badRequest"}

\* C1: single-flight acquisition.  Of all the initPrinter() calls made from
\* the uninitialized state on, with no reset in between, only the first
\* runs discovery (exactly one if the printer type is usb), at most one
\* handle is constructed (exactly one when a handle is returned, none when
\* an error is), and every caller is given the same handle or the same
\* error.
C1_SingleFlight ==
    window.results # {} =>
        /\ Cardinality(window.results) = 1
        /\ window.discoveries = (IF cfgType = "usb" THEN 1 ELSE 0)
        /\ \A p \in window.results :
              window.constructed = (IF p.handle # NULL THEN 1 ELSE 0)

\* Two callers wait on the same failed discovery, which ran once.
C1_Witness ==
    \E r, q \in Reqs :
        /\ r # q
        /\ pc[r] = "acquiring" /\ pc[q] = "acquiring"
        /\ acquired[r] = Rejected(Err("NoDevice"))
        /\ acquired[q] = acquired[r]
        /\ window.discoveries = 1

\* C2: once initPrinter() has rejected because discovery found nothing,
\* the connection manager holds no handle and is not initialized, and the
\* next initPrinter() call runs discovery again.
C2_FailureLeavesUninitialized ==
    Rejected(Err("NoDevice")) \in window.results =>
        /\ printerAdapter = NULL
        /\ ~isInitialized
        /\ initPrinter(Manager, TRUE).discoveries = discoveries + 1

\* C3: retry count bound.  When retryWithBackoff catches a transient error,
\* it goes on to another invocation as long as fewer than 4 have been
\* made, and after the 4th it rejects with a wrapped error whose message
\* reports "3 retries" and contains the message of the error just caught.
C3_RetryCountBound ==
    [][\A r \in Reqs :
          (/\ pc[r] = "coreRejected"
           /\ pc'[r] # "coreRejected"
           /\ isTransientError(coreError[r])) =>
              IF Calls(trace[r]) < 4
              THEN pc'[r] = "backoff"
              ELSE /\ Calls(trace[r]) = 4
                   /\ pc'[r] = "failed"
                   /\ outcome'[r].error # coreError[r]
                   /\ includes(Message(outcome'[r].error), MsgThreeRetries)
                   /\ includes(Message(outcome'[r].error),
                               Message(coreError[r]))]_vars

C3_Witness ==
    \E r \in Reqs :
        /\ pc[r] = "failed"
        /\ outcome[r].error.kind = "Wrapped"
        /\ Calls(trace[r]) = 4

\* C4: permanent short-circuit.  When retryWithBackoff catches an error
\* that is not transient, on whichever attempt, it rejects with that very
\* error, without a reset, a wait or another invocation, then or later.
C4_PermanentShortCircuit ==
    [][\A r \in Reqs :
          /\ (/\ pc[r] = "coreRejected"
              /\ pc'[r] # "coreRejected"
              /\ ~isTransientError(coreError[r])) =>
                 /\ pc'[r] = "failed"
                 /\ outcome'[r].error = coreError[r]
                 /\ trace'[r] = trace[r]
                 /\ attempt'[r] = attempt[r]
                 /\ UNCHANGED managerVars
          /\ pc[r] = "failed" =>
                 /\ pc'[r] = "failed"
                 /\ trace'[r] = trace[r]
                 /\ outcome'[r] = outcome[r]]_vars

\* A permanent error on a later attempt, passed on as it is.
C4_Witness ==
    \E r \in Reqs :
        /\ pc[r] = "failed"
        /\ outcome[r].error = Err("DriverGone")
        /\ attempt[r] >= 1

\* C5: in the history of one retryWithBackoff invocation the first entry is
\* the first call of the operation, and every later call comes right after
\* a wait that comes right after a reset.
C5_ResetThenWaitThenCall ==
    \A r \in Reqs :
        /\ Len(trace[r]) > 0 => trace[r][1].ev = "call"
        /\ \A i \in 2..Len(trace[r]) :
              trace[r][i].ev = "call" =>
                  /\ i >= 4
                  /\ trace[r][i - 1].ev = "wait"
                  /\ trace[r][i - 2].ev = "reset"
                  /\ trace[r][i - 3].ev = "call"

C5_Witness == \E r \in Reqs : Calls(trace[r]) >= 3

\* C6: backoff timing.  The k-th wait of a retryWithBackoff invocation is
\* RETRY_BASE_DELAY * 2^(k-1): 1000, 2000 and 4000 ms.
C6_BackoffTiming ==
    \A r \in Reqs :
        \A k \in 1..Len(Waits(trace[r])) :
            /\ k <= 3
            /\ Waits(trace[r])[k].ms = RETRY_BASE_DELAY * (2 ^ (k - 1))
            /\ Waits(trace[r])[k].ms = << 1000, 2000, 4000 >>[k]

C6_Witness == \E r \in Reqs : Len(Waits(trace[r])) = 3

\* C7: deadline expiry.  When the deadline timer of the attempt in progress
\* fires before printOperation has finished, printReceiptCore rejects with
\* the timeout error and the connection is reset in that same callback;
\* and while that rejection waits for its caller, no other request being
\* under way, getPrinter() is null.
C7_DeadlineExpiry ==
    /\ [](\A r \in Reqs :
             (pc[r] = "coreRejected" /\ coreError[r] = Err("Timeout")
                  /\ Quiet(r)) =>
                 (getPrinter = NULL /\ ~isInitialized))
    /\ [][\A r \in Reqs :
             (/\ pc[r] = "racing"
              /\ timer[r][attempt[r]] = "armed"
              /\ timer'[r][attempt[r]] = "none"
              /\ operation'[r][attempt[r]] = operation[r][attempt[r]]) =>
                 /\ pc'[r] = "coreRejected"
                 /\ coreError'[r] = Err("Timeout")
                 /\ includes(Message(coreError'[r]), MsgTimeout)
                 /\ printerAdapter' = NULL
                 /\ ~isInitialized']_vars

\* Open and emission succeeded, and the deadline fired in the settle delay.
C7_Witness ==
    \E r \in Reqs :
        /\ pc[r] = "coreRejected"
        /\ coreError[r] = Err("Timeout")
        /\ Quiet(r)
        /\ operation[r][attempt[r]].state = "settling"
        /\ operation[r][attempt[r]].handle \in closeCalled

\* C8: step failure.  A failed acquisition, and a failed open or emission
\* of the attempt in progress, make printReceiptCore reject with the error
\* of the step.  Whenever printReceiptCore rejects for another reason than
\* the deadline, the callback that rejects it leaves the connection manager
\* reset (no handle, not initialized, no initialization promise), and makes
\* no further discovery, construction or call of the operation.
C8_StepFailureResets ==
    [][\A r \in Reqs :
          /\ (/\ pc[r] = "acquiring"
              /\ acquired[r].handle = NULL
              /\ pc'[r] # "acquiring") =>
                 /\ pc'[r] = "coreRejected"
                 /\ coreError'[r] = acquired[r].error
          /\ (/\ pc[r] = "racing"
              /\ operation[r][attempt[r]].state = "opening"
              /\ operation'[r][attempt[r]].state = "none") =>
                 /\ pc'[r] = "coreRejected"
                 /\ coreError'[r].kind
                       \in {"OpenFailed", "DriverBusy", "DriverGone"}
          /\ (/\ pc[r] # "coreRejected"
              /\ pc'[r] = "coreRejected"
              /\ coreError'[r] # Err("Timeout")) =>
                 /\ printerAdapter' = NULL
                 /\ ~isInitialized'
                 /\ initializationPromise' = NoPromise
                 /\ discoveries' = discoveries
                 /\ constructed' = constructed
                 /\ trace'[r] = trace[r]
                 /\ attempt'[r] = attempt[r]]_vars

C8_Witness ==
    \E r \in Reqs :
        /\ pc[r] = "coreRejected"
        /\ coreError[r] = Err("NoDevice")
        /\ initializationPromise = NoPromise

\* C9: reset on success.  When printReceiptCore has resolved and no other
\* request is under way, getPrinter() is null and the connection manager
\* uninitialized, and an initPrinter() call that finds a device runs a new
\* discovery and constructs a handle that is none of the closed ones.
C9_ResetOnSuccess ==
    \A r \in Reqs :
        (pc[r] = "coreResolved" /\ Quiet(r)) =>
            /\ getPrinter = NULL
            /\ ~isInitialized
            /\ closeCalled # {}
            /\ initPrinter(Manager, TRUE).discoveries = discoveries + 1
            /\ initPrinter(Manager, TRUE).constructed = constructed + 1
            /\ initPrinter(Manager, TRUE).returned.handle # NULL
            /\ initPrinter(Manager, TRUE).returned.handle \notin closeCalled

C9_Witness ==
    \E r \in Reqs : pc[r] = "coreResolved" /\ Quiet(r) /\ emitted[r] = 1

\* C10: scenario C.  With a usb printer and a driver that never fails, two
\* printReceipt calls (and no test request, and no request rejected for its
\* body) never fail, and a second discovery is made only if one request had
\* completed its final reset when the other was submitted.
C10_ScenarioC ==
    (/\ cfgType = "usb" /\ faults = 0 /\ Submitted = 2
     /\ \A r \in Reqs : pc[r] \notin TestStates \cup {"badRequest"}) =>
        /\ \A r \in Reqs :
              pc[r] \in {"idle", "acquiring", "racing", "coreResolved",
                         "success"}
        /\ discoveries <= 1 \/ \E r \in Reqs : finishedBefore[r] # {}
        /\ discoveries <= 2

\* Both requests succeeded on the handle of a single discovery.
C10_Witness ==
    /\ faults = 0
    /\ \A r \in Reqs : pc[r] \notin TestStates \cup {"badRequest"}
    /\ Submitted = 2
    /\ \A r \in Reqs : pc[r] # "idle" => pc[r] = "success"
    /\ discoveries = 1

\* An operation has called open on its handle and has not yet finished its
\* emit, cut, close and settle sequence.
Using(r, a) == operation[r][a].state # "none"

\* C11: serialized ownership.  No two print or test operations use the same
\* handle at the same time.
C11_SerializedOwnership ==
    \A r, q \in Reqs : \A a, b \in Attempts :
        (Using(r, a) /\ Using(q, b) /\ << r, a >> # << q, b >>) =>
            operation[r][a].handle # operation[q][b].handle

\* The handles that have been constructed and whose close has not completed.
Live == (1..constructed) \ closed

\* C12: at most one live handle.  In every state at most one handle has
\* been constructed without its close having completed.
C12_AtMostOneLiveHandle == Cardinality(Live) <= 1

\* C13: whenever the connection manager is ready (isInitialized), the
\* stored handle is not null.
C13_ReadyImpliesHandle == isInitialized => printerAdapter # NULL

\* The manager is ready again after resets and a closePrinter() call.
C13_Witness ==
    /\ isInitialized
    /\ printerAdapter # NULL
    /\ closeCalled # {}
    /\ shutdown.pc = "closed"
    /\ shutdown.handle # NULL

\* C14: from any state of the connection manager, and whether or not the
\* close() of the stored handle throws, resetPrinter() does not throw, has
\* tried to close the handle that was stored, and leaves no handle, the
\* flag cleared and no initialization promise.
C14_ResetFromAnyState ==
    \A closeThrows \in BOOLEAN :
        /\ ~resetPrinterCall(Manager, closeThrows).thrown
        /\ resetPrinterCall(Manager, closeThrows).manager.printerAdapter
              = NULL
        /\ ~resetPrinterCall(Manager, closeThrows).manager.isInitialized
        /\ resetPrinterCall(Manager, closeThrows).manager
              .initializationPromise = NoPromise
        /\ printerAdapter # NULL =>
              printerAdapter \in
                  resetPrinterCall(Manager, closeThrows).manager.closeCalled
        /\ resetPrinterCall(Manager, closeThrows).manager
              = resetPrinter(Manager)

\* resetPrinter() is called in the ready state and in the state in which a
\* settled initialization promise is left: each has been reached, and the
\* reset of a ready manager has been made.
C14_Witness ==
    /\ ~isInitialized
    /\ printerAdapter = NULL
    /\ initializationPromise = NoPromise
    /\ closeCalled # {}
    /\ \E r \in Reqs :
          pc[r] = "coreRejected" /\ coreError[r] = Err("OpenFailed")

\* C15: idempotent reset.  From any state, two and three consecutive
\* resetPrinter() calls leave what one call leaves: no handle, the flag
\* cleared, no initialization promise, and the same handles closed.
C15_IdempotentReset ==
    /\ resetPrinter(Manager).printerAdapter = NULL
    /\ ~resetPrinter(Manager).isInitialized
    /\ resetPrinter(Manager).initializationPromise = NoPromise
    /\ resetPrinter(resetPrinter(Manager)) = resetPrinter(Manager)
    /\ resetPrinter(resetPrinter(resetPrinter(Manager)))
          = resetPrinter(Manager)

\* Three consecutive resets have been made: by the catch blocks of
\* printOperation and printReceiptCore and by the retry that follows.
C15_Witness ==
    \E r \in Reqs :
        /\ pc[r] = "backoff"
        /\ Quiet(r)
        /\ closeCalled # {}
        /\ printerAdapter = NULL
        /\ Manager = resetPrinter(Manager)

\* C16: singleton reuse.  When the connection manager is ready,
\* initPrinter() returns the stored handle, runs no discovery, constructs
\* no handle and leaves the handle, the flag and the promise as they are.
C16_SingletonReuse ==
    (isInitialized /\ printerAdapter # NULL) =>
        \A found \in BOOLEAN :
            /\ initPrinter(Manager, found).returned
                  = Resolved(printerAdapter)
            /\ initPrinter(Manager, found).discoveries = discoveries
            /\ initPrinter(Manager, found).constructed = constructed
            /\ initPrinter(Manager, found).printerAdapter = printerAdapter
            /\ initPrinter(Manager, found).isInitialized
            /\ initPrinter(Manager, found).initializationPromise
                  = initializationPromise
            /\ initPrinter(Manager, found).closeCalled = closeCalled

\* A second request has been given the handle the first one is using, with
\* one discovery and one construction made.
C16_Witness ==
    \E r, q \in Reqs :
        /\ r # q
        /\ isInitialized
        /\ operation[r][attempt[r]].handle = printerAdapter
        /\ operation[r][attempt[r]].state = "opening"
        /\ pc[q] = "acquiring"
        /\ acquired[q] = Resolved(printerAdapter)
        /\ discoveries = 1
        /\ constructed = 1

\* C17: no partial success.  printReceiptCore resolves only when the
\* operation of the attempt in progress ends its settle delay, an operation
\* enters its settle delay only from its open, by the callback that sends
\* every line, the feed and the cut, and printReceipt reports success only
\* after printReceiptCore has resolved; a request that has ended otherwise
\* has failed with an error.
C17_NoPartialSuccess ==
    /\ [](\A r \in Reqs :
             /\ outcome[r].success <=> pc[r] \in {"success", "testSuccess"}
             /\ pc[r] = "failed" => outcome[r].error # NoError
             /\ pc[r] \in {"coreResolved", "success"} => emitted[r] >= 1)
    /\ [][\A r \in Reqs :
             /\ (pc'[r] = "success" /\ pc[r] # "success") =>
                    pc[r] = "coreResolved"
             /\ (pc'[r] = "coreResolved" /\ pc[r] # "coreResolved") =>
                    /\ pc[r] = "racing"
                    /\ operation[r][attempt[r]].state = "settling"
             /\ \A a \in Attempts :
                    (/\ operation'[r][a].state = "settling"
                     /\ operation[r][a].state # "settling") =>
                        /\ operation[r][a].state = "opening"
                        /\ emitted'[r] = emitted[r] + 1]_vars

\* Success on a retry, the one receipt of the request sent by that attempt.
C17_Witness ==
    \E r \in Reqs :
        /\ pc[r] = "success"
        /\ attempt[r] >= 1
        /\ emitted[r] = 1

C19_NoDeviceTransient ==
    \A r \in Reqs :
        coreError[r] = Err("NoDevice") => isTransientError(coreError[r])

\* C19 as amended: the error of an empty discovery, when the retry policy
\* catches it, is classified as permanent: isTransientError is false of it.
C19_NoDevicePermanent ==
    \A r \in Reqs :
        coreError[r] = Err("NoDevice") => ~isTransientError(coreError[r])

\* The first attempt of a request has been rejected by an empty discovery.
C19_Witness ==
    \E r \in Reqs :
        /\ pc[r] = "coreRejected"
        /\ coreError[r] = Err("NoDevice")
        /\ attempt[r] = 0
        /\ discoveries = 1

\* The error initPrinter() throws for the configured printer type.
ConfigError ==
    IF cfgType = "network" THEN Err("Network") ELSE Err("Unsupported")

\* C20: with a printer type other than usb, a printReceipt call makes one
\* call of the operation and no wait, and fails with the error initPrinter()
\* threw, unchanged.
C20_ConfigErrorNotRetried ==
    cfgType # "usb" =>
        \A r \in Reqs :
            pc[r] \notin TestStates \cup {"badRequest"} =>
                /\ pc[r] \in {"idle", "acquiring", "coreRejected", "failed"}
                /\ attempt[r] = 0
                /\ Calls(trace[r]) <= 1
                /\ Waits(trace[r]) = << >>
                /\ pc[r] = "acquiring" => acquired[r] = Rejected(ConfigError)
                /\ pc[r] = "coreRejected" => coreError[r] = ConfigError
                /\ pc[r] = "failed" =>
                      /\ outcome[r].error = ConfigError
                      /\ trace[r] = << Event("call", 0) >>

C20_Witness ==
    \E r \in Reqs :
        /\ cfgType = "serial"
        /\ pc[r] = "failed"
        /\ outcome[r].error = Err("Unsupported")
        /\ Calls(trace[r]) = 1

\* C21: the timeout error and the error of a failed open are transient.
\* When retryWithBackoff catches either of them with fewer than
\* MAX_RETRY_ATTEMPTS retries used, it resets the connection and waits for
\* the backoff delay of the next attempt, and when that wait ends it calls
\* the operation again.
C21_TimeoutAndOpenFailureRetried ==
    [][\A r \in Reqs :
          /\ (/\ pc[r] = "coreRejected"
              /\ pc'[r] # "coreRejected"
              /\ coreError[r].kind \in {"Timeout", "OpenFailed"}
              /\ attempt[r] < MAX_RETRY_ATTEMPTS) =>
                 /\ isTransientError(coreError[r])
                 /\ pc'[r] = "backoff"
                 /\ attempt'[r] = attempt[r] + 1
                 /\ trace'[r] = trace[r] \o
                        << Event("reset", 0),
                           Event("wait", BackoffDelay(attempt[r] + 1)) >>
          /\ (pc[r] = "backoff" /\ pc'[r] # "backoff") =>
                 /\ pc'[r] = "acquiring"
                 /\ attempt'[r] = attempt[r]
                 /\ trace'[r] = Append(trace[r], Event("call", 0))]_vars

\* The first attempt was ended by its deadline, its open callback never
\* having come, and the second attempt has been started.
C21_Witness ==
    \E r \in Reqs :
        /\ pc[r] = "acquiring"
        /\ attempt[r] = 1
        /\ operation[r][0].state = "opening"
        /\ timer[r][0] = "none"
        /\ trace[r] = << Event("call", 0), Event("reset", 0),
                         Event("wait", 1000), Event("call", 0) >>

\* C22: closePrinter() always completes, the 2000 ms timer resolving what
\* it awaits if neither the close callback nor a throw of close() has; and
\* when it returns, having awaited or not, getPrinter() is null and the
\* connection manager is not initialized.
C22_ClosePrinterCompletes ==
    /\ (shutdown.pc = "closing") ~> (shutdown.pc = "closed")
    /\ [][(shutdown.pc # "closed" /\ shutdown'.pc = "closed") =>
             (getPrinter' = NULL /\ ~isInitialized')]_vars

\* closePrinter() has called close() on a stored handle and has returned.
C22_Witness ==
    /\ shutdown.pc = "closed"
    /\ shutdown.handle # NULL
    /\ shutdown.handle \in closeCalled
    /\ getPrinter = NULL
    /\ ~isInitialized

C24_LineWidthCompliance ==
    \A i \in 1..Len(lines) : Len(lines[i]) <= paperWidth

\* The body is a JSON object with no items field, with an items field that
\* is no array, or with an empty array as its items.
InvalidItemsField(body) ==
    /\ body.type = "object"
    /\ body.items.type # "array" \/ body.items.elems = << >>

Unsettled(r, a) ==
    \/ pc[r] = "racing" /\ attempt[r] = a
    \/ pc[r] = "testRacing" /\ a = 0

\* The deadline callback of an invocation runs: its timer was armed and is
\* no more, and its operation is where it was (when the operation ends,
\* it clears the timer and is itself over).
DeadlineCallbackRuns(r, a) ==
    /\ timer[r][a] \in {"armed", "testArmed"}
    /\ timer'[r][a] = "none"
    /\ operation'[r][a] = operation[r][a]

\* The operation of an invocation ends, by its last statement or by its
\* catch block: both call resetPrinter().
OperationEnds(r, a) ==
    /\ operation[r][a].state # "none"
    /\ operation'[r][a].state = "none"

\* C26: once an invocation of printReceiptCore (or of testPrinter) has
\* settled, neither its deadline callback nor the end of its operation
\* runs, so nothing of that invocation calls resetPrinter() any more.
C26_NoResetAfterSettled ==
    [][\A r \in Reqs, a \in Attempts :
          ~Unsettled(r, a) =>
              ~(DeadlineCallbackRuns(r, a) \/ OperationEnds(r, a))]_vars

\* The step is a callback run of request r: something of r changes.
ActsFor(r) ==
    << pc[r], attempt[r], acquired[r], operation[r], timer[r], trace[r] >>'
        # << pc[r], attempt[r], acquired[r], operation[r], timer[r],
             trace[r] >>

\* C27: a callback run of one request never calls close() on, and never
\* makes the connection manager forget, the handle on which the operation
\* of an unsettled invocation of another request is at work.
C27_ResetSparesOthersHandle ==
    [][\A r, q \in Reqs :
          (r # q /\ ActsFor(r)) =>
              \A b \in Attempts :
                  (Unsettled(q, b) /\ Using(q, b)) =>
                      /\ operation[q][b].handle \in closeCalled'
                             => operation[q][b].handle \in closeCalled
                      /\ printerAdapter = operation[q][b].handle
                             => printerAdapter' = printerAdapter]_vars

\* C28: at-most-once printing.  Over all the attempts of one request, the
\* abandoned ones included, the receipt (its lines, then the cut) is sent
\* to the device at most once.
C28_AtMostOncePrinting == \A r \in Reqs : emitted[r] <= 1

\* The positions of the commands of one kind in what an operation has sent.
Positions(sent, c) == {i \in 1..Len(sent) : sent[i].cmd = c}

\* C29: the order of one successful attempt.  An operation starts with the
\* handle its invocation was given by initPrinter(); until its open has
\* succeeded it has sent nothing; the callback that follows the open sends
\* every line formatReceipt returned, in that order, then feed, then cut,
\* then close; printReceiptCore resolves only from the end of the settle
\* delay that follows, in the run that has reset the connection manager;
\* and only after that does printReceipt report success.
C29_AttemptOrder ==
    /\ [](LET n == Len(formatReceipt(orderData, paperWidth))
          IN  \A r \in Reqs, a \in Attempts :
                  /\ operation[r][a].state = "opening" =>
                         /\ operation[r][a].sent = << >>
                         /\ operation[r][a].handle # NULL
                  /\ operation[r][a].state = "settling" =>
                         /\ Len(operation[r][a].sent) = n + 3
                         /\ \A i \in 1..n :
                                operation[r][a].sent[i] = Command("text", i)
                         /\ operation[r][a].sent[n + 1].cmd = "feed"
                         /\ operation[r][a].sent[n + 2].cmd = "cut"
                         /\ operation[r][a].sent[n + 3].cmd = "close"
                         /\ \A i \in Positions(operation[r][a].sent, "text"),
                               j \in Positions(operation[r][a].sent, "cut") :
                                i < j)
    /\ [][\A r \in Reqs :
             /\ \A a \in Attempts :
                    /\ (/\ operation[r][a].state # "opening"
                        /\ operation'[r][a].state = "opening") =>
                           /\ pc[r] = "acquiring"
                           /\ acquired[r] = Resolved(operation'[r][a].handle)
                    /\ (/\ operation[r][a].state # "settling"
                        /\ operation'[r][a].state = "settling") =>
                           operation[r][a].state = "opening"
             /\ (pc[r] # "coreResolved" /\ pc'[r] = "coreResolved") =>
                    /\ pc[r] = "racing"
                    /\ operation[r][attempt[r]].state = "settling"
                    /\ operation'[r][attempt[r]].state = "none"
                    /\ printerAdapter' = NULL
                    /\ ~isInitialized'
                    /\ initializationPromise' = NoPromise
             /\ (pc[r] # "success" /\ pc'[r] = "success") =>
                    /\ pc[r] = "coreResolved"
                    /\ outcome'[r].success]_vars

\* An attempt has opened its handle and sent the lines, the feed, the cut
\* and the close, and is in its settle delay with its deadline pending.
C29_Witness ==
    \E r \in Reqs :
        /\ pc[r] = "racing"
        /\ timer[r][attempt[r]] = "armed"
        /\ operation[r][attempt[r]].state = "settling"
        /\ Len(operation[r][attempt[r]].sent) > 3
        /\ operation[r][attempt[r]].sent[1] = Command("text", 1)

\* C30: retry recovery.  A retryWithBackoff invocation that has caught k
\* transient errors (k is 0, 1, 2 or 3) and whose next invocation of the
\* operation succeeds has invoked the operation exactly k + 1 times, that
\* successful invocation being the last entry of its history; it resolves
\* at once, without another reset, wait or call, with the success result
\* and no error.
C30_RetryRecovery ==
    /\ [](\A r \in Reqs :
             pc[r] \in {"coreResolved", "success"} =>
                 /\ attempt[r] \in 0..MAX_RETRY_ATTEMPTS
                 /\ Calls(trace[r]) = attempt[r] + 1
                 /\ Len(Waits(trace[r])) = attempt[r]
                 /\ trace[r][Len(trace[r])].ev = "call"
                 /\ pc[r] = "success" =>
                        /\ outcome[r].success
                        /\ outcome[r].error = NoError)
    /\ [][\A r \in Reqs :
             (pc[r] = "coreResolved" /\ pc'[r] # "coreResolved") =>
                 /\ pc'[r] = "success"
                 /\ trace'[r] = trace[r]
                 /\ attempt'[r] = attempt[r]]_vars

\* A request has succeeded on its fourth invocation, after three transient
\* failures.
C30_Witness ==
    \E r \in Reqs :
        /\ pc[r] = "success"
        /\ outcome[r].success
        /\ attempt[r] = MAX_RETRY_ATTEMPTS
        /\ Calls(trace[r]) = MAX_RETRY_ATTEMPTS + 1

\* C31: initializationPromise is non-null only while an initialization is
\* in progress: a promise that has settled, with a handle or with an error,
\* is never what the variable holds, no reset being needed for that.
C31_PromiseOnlyWhileInitializing ==
    initializationPromise # NoPromise => ~initializationPromise.settled

\* C32: when closePrinter() has completed for a stored handle, the next
\* initPrinter() performs a new discovery and, a device being found, returns
\* a newly constructed handle, which is not the handle that was closed and
\* is the one getPrinter() reports after the call.
C32_InitAfterCloseIsFresh ==
    [][(shutdown.pc = "closing" /\ shutdown'.pc = "closed") =>
          /\ \A found \in BOOLEAN :
                 /\ initPrinter(Manager, found)'.discoveries
                        = discoveries' + 1
                 /\ initPrinter(Manager, found)'.returned.handle
                        # shutdown.handle
          /\ initPrinter(Manager, TRUE)'.returned = Resolved(constructed' + 1)
          /\ getPrinterCall(initPrinter(Manager, TRUE))'.value
                 = constructed' + 1]_vars

\* The step resets the connection manager: close() is invoked on the stored
\* handle, if there is one, and the handle, the flag and the promise are
\* cleared.
ResetDone ==
    /\ printerAdapter' = NULL
    /\ ~isInitialized'
    /\ initializationPromise' = NoPromise
    /\ printerAdapter # NULL => printerAdapter \in closeCalled'

\* C33: a testPrinter() call makes one attempt and is never retried: it has
\* no retry history, no operation or timer other than its first, sends the
\* test page at most once, and stays settled once settled.  While it is
\* unsettled its deadline is pending.  It rejects in the step that resets
\* the connection manager when the deadline fires, and when the open or the
\* emission fails; it resolves true only in the step that resets the
\* connection manager at the end of the settle delay.
C33_TestSingleAttempt ==
    /\ [](\A r \in Reqs :
             pc[r] \in TestStates =>
                 /\ attempt[r] = 0
                 /\ trace[r] = << >>
                 /\ emitted[r] <= 1
                 /\ \A a \in Attempts \ {0} :
                        operation[r][a] = NoOperation /\ timer[r][a] = "none"
                 /\ pc[r] = "testRacing" =>
                        /\ timer[r][0] = "testArmed"
                        /\ operation[r][0].state
                               \in {"testOpening", "testSettling"}
                 /\ pc[r] = "testSuccess" =>
                        outcome[r] = [success |-> TRUE, error |-> NoError]
                 /\ pc[r] = "testFailed" =>
                        /\ ~outcome[r].success
                        /\ outcome[r].error # NoError)
    /\ [][\A r \in Reqs :
             /\ pc[r] \in {"testSuccess", "testFailed"} =>
                    /\ pc'[r] = pc[r]
                    /\ outcome'[r] = outcome[r]
             /\ (pc[r] = "testRacing" /\ pc'[r] # "testRacing") =>
                    /\ ResetDone
                    /\ \/ /\ pc'[r] = "testSuccess"
                          /\ operation[r][0].state = "testSettling"
                          /\ operation'[r][0] = NoOperation
                       \/ /\ pc'[r] = "testFailed"
                          /\ outcome'[r].error = Err("Timeout")
                          /\ timer'[r][0] = "none"
                          /\ operation'[r][0] = operation[r][0]
                       \/ /\ pc'[r] = "testFailed"
                          /\ outcome'[r].error
                                 \in {Err("OpenFailed"), Err("DriverBusy")}
                          /\ operation[r][0].state = "testOpening"
                          /\ operation'[r][0] = NoOperation]_vars

\* One connectivity test has resolved true and another has been rejected by
\* its deadline.
C33_Witness ==
    \E r, q \in Reqs :
        /\ pc[r] = "testSuccess"
        /\ emitted[r] = 1
        /\ pc[q] = "testFailed"
        /\ outcome[q].error = Err("Timeout")

\* C34: handle construction.  Every handle was constructed from the pair of
\* configured identifiers, read as hexadecimal numbers, if both are
\* configured, and with no argument (the first printer found) if either is
\* missing.  A call that performs a discovery constructs exactly one handle
\* when the discovery finds a printer and none when it finds nothing,
\* whatever is configured, and no handle is constructed without a discovery.
C34_HandleConstruction ==
    /\ [](/\ Len(adapters) = constructed
          /\ \A h \in 1..constructed :
                 /\ (usb.vendorId # << >> /\ usb.productId # << >>) <=>
                        adapters[h] = << parseInt16(usb.vendorId),
                                         parseInt16(usb.productId) >>
                 /\ (usb.vendorId = << >> \/ usb.productId = << >>) =>
                        adapters[h] = << >>
          /\ \A found \in BOOLEAN :
                 initPrinter(Manager, found).discoveries # discoveries =>
                     initPrinter(Manager, found).constructed
                         = constructed + (IF found THEN 1 ELSE 0))
    /\ [][/\ constructed' # constructed => discoveries' = discoveries + 1
          /\ discoveries' # discoveries =>
                 \/ /\ constructed' = constructed + 1
                    /\ printerAdapter' = constructed'
                    /\ isInitialized'
                    /\ Resolved(constructed') \in window'.results
                 \/ /\ constructed' = constructed
                    /\ adapters' = adapters
                    /\ printerAdapter' = NULL
                    /\ Rejected(Err("NoDevice")) \in window'.results]_vars

\* With USB_VENDOR_ID=04b8 and USB_PRODUCT_ID=0202 a handle has been
\* constructed as new USBAdapter(1208, 514), and a discovery that found
\* nothing has constructed none.
C34_Witness ==
    /\ usb.vendorId # << >>
    /\ usb.productId # << >>
    /\ constructed = 1
    /\ discoveries = 2
    /\ adapters = << << Number(1208), Number(514) >> >>

\* C35: no handle is dropped unclosed.  A step that takes a handle out of
\* the stored reference leaves it a handle on which close() has been
\* invoked, a handle constructed while closePrinter() was waiting included.
C35_NoHandleDroppedUnclosed ==
    [][(printerAdapter # NULL /\ printerAdapter' # printerAdapter) =>
          printerAdapter \in closeCalled']_vars

\* C36: graceful shutdown ordering.  server.close() has been called only if
\* closePrinter() has completed, and it is called in the step in which the
\* wait of closePrinter() ends (or at once when no handle was stored); once
\* a shutdown has begun server.close() is eventually called, whatever the
\* driver does with the close; and the process exits, with code 0, only in
\* the step in which the server has closed, every request answered.
C36_ShutdownOrdering ==
    /\ [](shutdown.server # "listening" => shutdown.pc = "closed")
    /\ [](shutdown.exit # "none" =>
              shutdown.exit = "0" /\ shutdown.server = "closed")
    /\ [][/\ (/\ shutdown.server = "listening"
               /\ shutdown'.server # "listening") =>
                  /\ shutdown'.server = "closing"
                  /\ shutdown'.exit = "none"
                  /\ shutdown.pc # "closed"
                  /\ shutdown.pc = "closing" =>
                         printerAdapter' = NULL /\ ~isInitialized'
          /\ (shutdown.exit = "none" /\ shutdown'.exit # "none") =>
                  /\ shutdown.server = "closing"
                  /\ shutdown'.server = "closed"
                  /\ \A r \in Reqs : Answered(r)]_vars
    /\ (shutdown.pc # "idle") ~> (shutdown.server # "listening")

\* The process has exited after a shutdown that had a handle to close and
\* that began while a request was under way.
C36_Witness ==
    /\ shutdown.exit = "0"
    /\ shutdown.handle # NULL
    /\ \E r \in Reqs : pc[r] = "failed"

\* The x-api-key header is missing or differs from the configured key.
Unauthenticated(key) == key.type = "undefined" \/ key.value # apiKey

\* The request r arrives at one of the three protected routes with the
\* header key.
ProtectedRequest(r, limited, key) ==
    \/ getTest(r, limited, key)
    \/ postTestReceipt(r, limited, key)
    \/ \E body \in Bodies : postPrintRoute(r, limited, key, body)

\* The step starts nothing for request r and touches neither the
\* connection manager nor the device.
NothingInvoked(r) ==
    /\ UNCHANGED << managerVars, operation, timer, emitted, acquired,
                    trace, attempt, outcome >>
    /\ pc'[r] \in {"unauthorized", "tooMany"}

Holds(r) ==
    /\ printerAdapter # NULL
    /\ \/ acquired[r] = Resolved(printerAdapter)
       \/ \E a \in Attempts :
             /\ operation[r][a].state # "none"
             /\ operation[r][a].handle = printerAdapter

CenterMark(line) ==
    \/ \E k \in 1..(Len(line) - 9) : \A j \in 0..9 : line[k + j] = "="
    \/ includes(line, << "T", "h", "a", "n", "k", " ", "y", "o", "u" >>)
    \/ includes(line, << "P", "l", "e", "a", "s", "e", " ", "c", "o", "m",
                         "e" >>)
    \/ includes(line, TxtStoreName)

BoldMark(line) ==
    \E mark \in {TxtTotal, TxtSubtotal} :
        Len(line) >= Len(mark) /\ SubSeq(line, 1, Len(mark)) = mark

\* What the Printer was last told before its k-th call: the argument of the
\* latest call of that kind, "unset" when there was none.
LastSet(kind, k) ==
    LET S == {j \in 1..(k - 1) : printerCalls[j].call = kind}
    IN  IF S = {} THEN "unset"
        ELSE printerCalls[CHOOSE j \in S : \A h \in S : h <= j].arg

TextCalls == {k \in 1..Len(printerCalls) : printerCalls[k].call = "text"}

\* C39: once the lines are sent, each line was sent by exactly one text
\* call, in the order of the lines, and the alignment and the style in
\* force at that call follow the precedence: centred and not bold when the
\* line has a centring mark; otherwise left-aligned and bold when it begins
\* with TOTAL: or Subtotal:, the next call setting the style back to
\* normal; otherwise left-aligned and not bold.
C39_EmissionPolicy ==
    printerCalls # << >> =>
        /\ \A i \in 1..Len(lines) :
               Cardinality({k \in TextCalls : printerCalls[k].line = i}) = 1
        /\ \A k, h \in TextCalls :
               k < h => printerCalls[k].line < printerCalls[h].line
        /\ \A k \in TextCalls :
               LET line == lines[printerCalls[k].line]
                   align == LastSet("align", k)
                   style == LastSet("style", k)
               IN  IF CenterMark(line)
                   THEN align = "ct" /\ style # "b"
                   ELSE IF BoldMark(line)
                   THEN /\ align = "lt"
                        /\ style = "b"
                        /\ k < Len(printerCalls)
                        /\ printerCalls[k + 1] =
                               Call("style", "normal", printerCalls[k].line)
                   ELSE align = "lt" /\ style # "b"

\* The lines were sent, one of them has both marks, and a bold line is
\* followed by a line that has no mark.
C39_Witness ==
    /\ printerCalls # << >>
    /\ \E i \in 1..Len(lines) : CenterMark(lines[i]) /\ BoldMark(lines[i])
    /\ \E i \in 1..(Len(lines) - 1) :
          /\ BoldMark(lines[i]) /\ ~CenterMark(lines[i])
          /\ ~BoldMark(lines[i + 1]) /\ ~CenterMark(lines[i + 1])
          /\ \E k \in TextCalls :
                printerCalls[k].line = i + 1 /\ LastSet("style", k) = "normal"

=============================================================================
